---- MODULE Spec2Model ----
(***************************************************************************)
(* serobj: the deconstruction / reconstruction engine of                   *)
(* serobj/protocol/zero.py and the protocol registry and envelope of       *)
(* serobj/protocol/base.py.                                                *)
(*                                                                         *)
(* Live Python objects are kept in a heap (a sequence of objects, an       *)
(* object's identity id(obj) being its index); the values the engine       *)
(* builds (documents, reconstructed values) are immediate trees.           *)
(***************************************************************************)
EXTENDS Integers, Sequences, FiniteSets, TLC

(***************************************************************************)
(* Bounds of the model.                                                    *)
(***************************************************************************)
\* live objects in the object graph handed to dumps
MaxObjs == 3
\* child slots (elements, items, attributes, arguments) in the whole graph
MaxSlots == 3
\* class statements executed after base.py is imported (protocol
\* registrations attempted)
MaxClasses == 3
\* protocol versions range over 0..MaxVersion
MaxVersion == 1

\* sys.getrecursionlimit(), counted in nested _deconstruct / _construct
\* calls; above the deepest nesting a graph of MaxObjs objects can need.
RecursionLimit == MaxObjs + 3

(***************************************************************************)
(* Python values.  Every value is a record tagged by k; a field name has   *)
(* one type wherever it occurs.                                            *)
(***************************************************************************)
PyNone == [k |-> "none"]
PyBool(b) == [k |-> "bool", b |-> b]
PyInt(i) == [k |-> "int", i |-> i]
\* a float, in tenths: PyFloat(10) is 1.0
PyFloat(f) == [k |-> "float", f |-> f]
PyStr(s) == [k |-> "str", s |-> s]
\* a live object, by identity
Ref(a) == [k |-> "ref", a |-> a]
\* a list / dict the engine built (no live identity); a dict keeps its
\* items in insertion order
PyList(items) == [k |-> "list", items |-> items]
Pair(key, val) == [key |-> key, val |-> val]
PyDict(pairs) == [k |-> "dict", pairs |-> pairs]
\* values only reconstruction builds
PyTuple(items) == [k |-> "tuple", items |-> items]
PySet(items) == [k |-> "set", items |-> items]
PyObject(cls, calls, state) ==
    [k |-> "object", cls |-> cls, calls |-> calls, state |-> state]
PyClass(path) == [k |-> "class", path |-> path]
PyRange(args) == [k |-> "range", args |-> args]

CUSTOM_NONE_TYPE == [k |-> "sentinel"]

_PROTOCOL_ID_KEY == "__id__"
_RECURSION_KEY == "__SO_RC__"
_INIT_LIKE_NEW_KEY == PyStr("__SO_ILN__")
_DEFAULT_PROTOCOL_NAME == "serobj"

(***************************************************************************)
(* Heap objects.                                                           *)
(***************************************************************************)
ListObj(items) == [t |-> "list", items |-> items]
TupleObj(items) == [t |-> "tuple", items |-> items]
SetObj(items) == [t |-> "set", items |-> items]
DictObj(pairs) == [t |-> "dict", pairs |-> pairs]
\* an argument list override (SEROBJ__NEW_ARGS / SEROBJ__INIT_ARGS): absent,
\* or a list of {"name": ..., "value": ...} dicts
NoArgs == [has |-> FALSE, args |-> <<>>]
Arg(name, value) == [name |-> name, value |-> value]
\* an override key the class does not define (SEROBJ__ATTRS,
\* SEROBJ__ATTRS_FILTER)
NoOverride == [kind |-> "none"]
\* an instance of a module-level class: its __dict__ and its overrides
PlainObj(cls, attrs, new_args, init_args) ==
    [t |-> "obj", cls |-> cls, attrs |-> attrs,
     new_args |-> new_args, init_args |-> init_args,
     attrs_key |-> NoOverride, attrs_filter |-> NoOverride]
\* an instance of a class whose name starts with "_"
PrivateObj == [t |-> "private"]
ModuleObj == [t |-> "module"]

\* the user's class, defined at module level
UserModule == "app"
UserClass == "C"

IsPrim(v) == v.k \in {"none", "bool", "int", "float", "str"}

\* the Python type a value is an instance of, as the engine's isinstance
\* tests see it
TypeOf(h, v) ==
    IF v.k = "ref" THEN h[v.a].t
    ELSE IF IsPrim(v) THEN "prim"
    ELSE v.k

Items(h, v) == IF v.k = "ref" THEN h[v.a].items ELSE v.items
Pairs(h, v) == IF v.k = "ref" THEN h[v.a].pairs ELSE v.pairs

DictHas(pairs, key) == \E i \in DOMAIN pairs : pairs[i].key = key
DictGet(pairs, key) ==
    pairs[CHOOSE i \in DOMAIN pairs : pairs[i].key = key].val
\* d[key] = val on a dict in insertion order
DictSet(pairs, key, val) ==
    IF DictHas(pairs, key)
    THEN [i \in DOMAIN pairs |->
            IF pairs[i].key = key THEN Pair(key, val) ELSE pairs[i]]
    ELSE Append(pairs, Pair(key, val))

InSeq(x, s) == \E i \in DOMAIN s : s[i] = x

(***************************************************************************)
(* The node schema (_VALIDATION_SCHEMA, checked by cerberus with           *)
(* allow_unknown): "__id__" an integer or a string, "source" None or a     *)
(* dict with a string "name" and, if present, a string "module",           *)
(* "representation" present.                                               *)
(***************************************************************************)
IsDictValue(h, v) == TypeOf(h, v) = "dict"

_SCHEMA_VALIDATOR(h, pairs) ==
    /\ DictHas(pairs, _PROTOCOL_ID_KEY)
    /\ DictGet(pairs, _PROTOCOL_ID_KEY).k \in {"int", "str"}
    /\ DictHas(pairs, "source")
    /\ LET source == DictGet(pairs, "source")
       IN  \/ source = PyNone
           \/ /\ IsDictValue(h, source)
              /\ LET sp == Pairs(h, source)
                 IN  /\ DictHas(sp, "name")
                     /\ DictGet(sp, "name").k = "str"
                     /\ DictHas(sp, "module") => DictGet(sp, "module").k = "str"
    /\ DictHas(pairs, "representation")

_is_primitive_object(v) == IsPrim(v)

_is_proto_object(h, v) ==
    IsDictValue(h, v) /\ _SCHEMA_VALIDATOR(h, Pairs(h, v))

\* module, lambda, generator
UnsupportedTypes == {"module"}
_check_unsupported_types(h, v) == TypeOf(h, v) \in UnsupportedTypes

(***************************************************************************)
(* The source locator (serobj/utils/path_to_object.py).                    *)
(***************************************************************************)
SourceName(h, v) ==
    LET t == TypeOf(h, v)
    IN  IF t = "obj" THEN h[v.a].cls
        ELSE IF t = "sentinel" THEN "NoneType"
        ELSE t

SourceModule(h, v) ==
    LET t == TypeOf(h, v)
    IN  IF t = "obj" THEN UserModule
        ELSE IF t = "sentinel" THEN "serobj.protocol.base"
        ELSE "builtins"

get_object_source_info(h, v) ==
    PyDict(<< Pair("name", PyStr(SourceName(h, v))),
              Pair("module", PyStr(SourceModule(h, v))),
              Pair("path", PyStr(SourceName(h, v))),
              Pair("full_path",
                   PyStr(SourceModule(h, v) \o ":" \o SourceName(h, v))) >>)

\* the names importlib and getattr resolve, among those a document of the
\* model carries: the builtin container types and the user's module-level
\* class.  CUSTOM_NONE_TYPE's class is bound to no module
\* attribute (base.py line 23), so its path is not among them.
Importable ==
    {"builtins:tuple", "builtins:set", "builtins:range",
     UserModule \o ":" \o UserClass}

import_object_source(path) ==
    IF path \in Importable
    THEN [exc |-> "", val |-> PyClass(path)]
    ELSE [exc |-> "AttributeError", val |-> PyNone]

(***************************************************************************)
(* The state a deconstruction pass runs on: the heap, the protocol         *)
(* instance's _counter and _recursion_map (id(obj) -> counter), the        *)
(* exception in flight ("" for none) and the depth of the call stack.      *)
(* History fields record what the pass did: stack holds the objects whose  *)
(* _deconstruct call is on the call stack, nodes the nodes emitted (object,*)
(* id carried, counter at entry), refs the cycle references emitted        *)
(* (object, value, whether the object was on the call stack), reentered    *)
(* whether an object was entered while already on the call stack, rmap0    *)
(* the _recursion_map the pass started with.                               *)
(***************************************************************************)
EmptyMap == [x \in {} |-> 0]
\* self._recursion_map.get(id(obj)); 0 stands for None (counters start at 1)
MapGet(m, a) == IF a \in DOMAIN m THEN m[a] ELSE 0
MapSet(m, a, n) == [x \in DOMAIN m \cup {a} |-> IF x = a THEN n ELSE m[x]]
MapDel(m, a) == [x \in DOMAIN m \ {a} |-> m[x]]

\* ZeroSerobjProtocol.__init__
NewInstance == [counter |-> 0, rmap |-> EmptyMap]

PassState(h, instance) ==
    [heap |-> h, counter |-> instance.counter, rmap |-> instance.rmap,
     exc |-> "", depth |-> 0,
     stack |-> <<>>, nodes |-> <<>>, refs |-> <<>>, reentered |-> FALSE,
     rmap0 |-> instance.rmap]

Ret(v, st) == [val |-> v, st |-> st]
Raise(e, st) == [val |-> PyNone, st |-> [st EXCEPT !.exc = e]]

RecursionRef(n) == PyDict(<< Pair(_RECURSION_KEY, PyInt(n)) >>)
Node(id, source, representation) ==
    PyDict(<< Pair(_PROTOCOL_ID_KEY, PyInt(id)),
              Pair("source", source),
              Pair("representation", representation) >>)
ArgDict(name, value) ==
    PyDict(<< Pair("name", PyStr(name)), Pair("value", value) >>)

(***************************************************************************)
(* ZeroSerobjProtocol._deconstruct and _get_representation.  A call        *)
(* returns [val, st]; a loop returns [out, st].  A definition that takes   *)
(* such a result as its last argument is the code that follows the call.   *)
(***************************************************************************)
RECURSIVE _deconstruct(_, _)
RECURSIVE DeconstructItems(_, _, _)
RECURSIVE DeconstructPairs(_, _, _)
RECURSIVE DeconstructAttrs(_, _, _)
RECURSIVE _process_args(_, _, _, _, _)

\* line 389 / 394: [self._deconstruct(v) for v in copy(obj)]
DeconstructItemsNext(vs, acc, r) ==
    IF r.st.exc # "" THEN [out |-> acc, st |-> r.st]
    ELSE DeconstructItems(Tail(vs), Append(acc, r.val), r.st)

DeconstructItems(vs, acc, st) ==
    IF vs = <<>> THEN [out |-> acc, st |-> st]
    ELSE DeconstructItemsNext(vs, acc, _deconstruct(Head(vs), st))

\* lines 383-385: {self._deconstruct(k): self._deconstruct(v) for k, v in
\* obj.items()}; the keys are strings, which _deconstruct returns as they are
DeconstructPairsNext(ps, acc, r) ==
    IF r.st.exc # "" THEN [out |-> acc, st |-> r.st]
    ELSE DeconstructPairs(Tail(ps), DictSet(acc, Head(ps).key, r.val), r.st)

DeconstructPairs(ps, acc, st) ==
    IF ps = <<>> THEN [out |-> acc, st |-> st]
    ELSE DeconstructPairsNext(ps, acc, _deconstruct(Head(ps).val, st))

\* lines 316-322: an attribute whose value deconstructs to CUSTOM_NONE_TYPE
\* is left out
DeconstructAttrsNext(ps, acc, r) ==
    IF r.st.exc # "" THEN [out |-> acc, st |-> r.st]
    ELSE IF r.val = CUSTOM_NONE_TYPE
    THEN DeconstructAttrs(Tail(ps), acc, r.st)
    ELSE DeconstructAttrs(Tail(ps), DictSet(acc, Head(ps).key, r.val), r.st)

DeconstructAttrs(ps, acc, st) ==
    IF ps = <<>> THEN [out |-> acc, st |-> st]
    ELSE DeconstructAttrsNext(ps, acc, _deconstruct(Head(ps).val, st))

\* lines 330-344: each argument's value is deconstructed and written back
\* into the argument dict (arg["value"] = prepared_arg_val); `which` is
\* "new_args" or "init_args", the list of object a being processed
ProcessArgsNext(a, which, i, acc, r) ==
    IF r.st.exc # "" THEN [out |-> acc, st |-> r.st]
    ELSE IF r.val = CUSTOM_NONE_TYPE
    THEN [out |-> acc,
          st |-> [r.st EXCEPT !.exc = "ValueError: not serializable"]]
    ELSE _process_args(a, which, i + 1,
                       Append(acc, ArgDict(r.st.heap[a][which].args[i].name,
                                           r.val)),
                       [r.st EXCEPT !.heap[a][which].args[i].value = r.val])

_process_args(a, which, i, acc, st) ==
    IF i > Len(st.heap[a][which].args) THEN [out |-> acc, st |-> st]
    ELSE ProcessArgsNext(a, which, i, acc,
                         _deconstruct(st.heap[a][which].args[i].value, st))

(***************************************************************************)
(* ZeroSerobjProtocol._get_attrs_filter and _get_attrs (lines 93-186).     *)
(* SEROBJ__ATTRS_FILTER is absent, a mapping name -> value, an iterable of *)
(* names, a callable or some other value; SEROBJ__ATTRS is absent, a       *)
(* mapping, an iterable of attribute names or the strategy "main".         *)
(***************************************************************************)
\* the callables a program gives as filter, called as
\* attrs_filter(obj, attr_name, attr_val)
CallFilter(fn, attr_name, attr_val) ==
    IF fn = "not_secret" THEN attr_name # "secret" ELSE attr_val # PyNone

\* lines 98-118: the exception _get_attrs_filter raises ("" for none)
_get_attrs_filter(o) ==
    IF o.attrs_filter.kind = "other" THEN "TypeError: attrs_filter" ELSE ""

\* map_filter, iter_filter or the callable on the entry p: the exception
\* raised and the truth value returned
AttrsFilter(f, p) ==
    IF f.kind = "none" THEN [exc |-> "", keep |-> TRUE]
    ELSE IF f.kind = "mapping"
    THEN IF ~DictHas(f.pairs, p.key) THEN [exc |-> "KeyError", keep |-> FALSE]
         ELSE [exc |-> "", keep |-> DictGet(f.pairs, p.key) = p.val]
    ELSE IF f.kind = "names" THEN [exc |-> "", keep |-> p.key \in f.names]
    ELSE [exc |-> "", keep |-> CallFilter(f.fn, p.key, p.val)]

\* dir(obj), restricted to the public names of the instance: sorted
AttrNameOrder == << "secret", "x" >>
Dir(o) == SelectSeq(AttrNameOrder, LAMBDA k : DictHas(o.attrs, k))

\* lines 56-67: public attributes whose value is of no builtin type and of
\* no class whose name starts with "_"
_get_obj_main_attrs(h, o) ==
    SelectSeq([i \in DOMAIN Dir(o) |->
                  Pair(Dir(o)[i], DictGet(o.attrs, Dir(o)[i]))],
              LAMBDA p : TypeOf(h, p.val) = "obj")

\* lines 155-178: the attribute set before the filter is applied
AttrsByKey(h, o) ==
    IF o.attrs_key.kind = "none"
    THEN \* _get_default_attrs: the items of __dict__
         [exc |-> "", out |-> o.attrs]
    ELSE IF o.attrs_key.kind = "main"
    THEN [exc |-> "", out |-> _get_obj_main_attrs(h, o)]
    ELSE IF o.attrs_key.kind = "mapping"
    THEN [exc |-> "", out |-> o.attrs_key.pairs]
    ELSE \* line 168: {k: getattr(obj, k) for k in attrs}
         IF \E i \in DOMAIN o.attrs_key.list :
               ~DictHas(o.attrs, o.attrs_key.list[i])
         THEN [exc |-> "AttributeError", out |-> <<>>]
         ELSE [exc |-> "",
               out |-> [i \in DOMAIN o.attrs_key.list |->
                          Pair(o.attrs_key.list[i],
                               DictGet(o.attrs, o.attrs_key.list[i]))]]

\* lines 180-186, c the attribute set
FilterAttrs(f, c) ==
    IF c.exc # "" THEN c
    ELSE IF \E i \in DOMAIN c.out : AttrsFilter(f, c.out[i]).exc # ""
    THEN [exc |-> "KeyError", out |-> <<>>]
    ELSE [exc |-> "",
          out |-> SelectSeq(c.out, LAMBDA p : AttrsFilter(f, p).keep)]

\* an attribute set that is not filtered (the fault C13_FilterHonoured
\* excludes)
_get_attrs_unfiltered(h, o) == AttrsByKey(h, o)

_get_attrs(h, o) ==
    IF _get_attrs_filter(o) # ""
    THEN [exc |-> _get_attrs_filter(o), out |-> <<>>]
    ELSE FilterAttrs(o.attrs_filter, AttrsByKey(h, o))

\* line 350: init_args == new_args, on two lists of argument dicts
ArgsEqual(x, y) == x.has /\ y.has /\ x.args = y.args

\* lines 346-358: repr_obj as the object's attrs and argument lists fill it
Representation(attrs, has_new, new_args, has_init, like_new, init_args) ==
    LET p1 == << Pair("attrs", PyDict(attrs)) >>
        p2 == IF has_new THEN Append(p1, Pair("new_args", PyList(new_args)))
              ELSE p1
        p3 == IF has_init
              THEN Append(p2, Pair("init_args",
                                   IF like_new THEN _INIT_LIKE_NEW_KEY
                                   ELSE PyList(init_args)))
              ELSE p2
    IN  IF ~has_new /\ ~has_init
        THEN Append(p3, Pair("new_args", PyList(<<>>)))
        ELSE p3

\* lines 349-358, ri the outcome of processing init_args
RepresentationEnd(a, attrs, new_args, like_new, ri) ==
    IF ri.st.exc # "" THEN Raise(ri.st.exc, ri.st)
    ELSE Ret(PyDict(Representation(attrs,
                                   ri.st.heap[a].new_args.has, new_args,
                                   ri.st.heap[a].init_args.has, like_new,
                                   ri.out)),
             ri.st)

\* lines 349-353, rn the outcome of processing new_args
RepresentationInitArgs(a, attrs, rn) ==
    IF rn.st.exc # "" THEN Raise(rn.st.exc, rn.st)
    ELSE RepresentationEnd(
             a, attrs, rn.out,
             ArgsEqual(rn.st.heap[a].init_args, rn.st.heap[a].new_args),
             IF /\ rn.st.heap[a].init_args.has
                /\ ~ArgsEqual(rn.st.heap[a].init_args, rn.st.heap[a].new_args)
             THEN _process_args(a, "init_args", 1, <<>>, rn.st)
             ELSE [out |-> <<>>, st |-> rn.st])

\* lines 327-347, ra the outcome of deconstructing the attributes
RepresentationNewArgs(a, ra) ==
    IF ra.st.exc # "" THEN Raise(ra.st.exc, ra.st)
    ELSE RepresentationInitArgs(
             a, ra.out,
             IF ra.st.heap[a].new_args.has
             THEN _process_args(a, "new_args", 1, <<>>, ra.st)
             ELSE [out |-> <<>>, st |-> ra.st])

\* lines 316-322, c the outcome of _get_attrs
RepresentationAttrs(c, st) ==
    IF c.exc # "" THEN [out |-> <<>>, st |-> [st EXCEPT !.exc = c.exc]]
    ELSE DeconstructAttrs(c.out, <<>>, st)

_get_representation(v, st) ==
    IF v = PyNone THEN Ret(PyNone, st)
    ELSE IF v.k \in {"list", "dict"}
    THEN \* lines 304-305: an Iterable or Mapping
         Ret(PyDict(<< Pair("attrs", PyDict(<<>>)),
                       Pair("init_args", PyList(<<ArgDict("", v)>>)) >>), st)
    ELSE \* a plain object: lines 316-358
         RepresentationNewArgs(
             v.a, RepresentationAttrs(_get_attrs(st.heap, st.heap[v.a]), st))

\* an engine that never finds an object in progress (the fault
\* C3_CycleSafety excludes)
HistoryNever(v, st) == 0

\* line 374: the counter value recorded for an object in progress, 0 for
\* None.  Only live objects are looked up: a value the engine built itself
\* is a fresh object no entry can name.
History(v, st) == IF v.k = "ref" THEN MapGet(st.rmap, v.a) ELSE 0

\* line 378, with the call entering the object's body
Enter(v, st) ==
    IF v.k = "ref"
    THEN [st EXCEPT !.rmap = MapSet(@, v.a, st.counter),
                    !.reentered = @ \/ InSeq(v.a, st.stack),
                    !.stack = Append(@, v.a)]
    ELSE st

\* the call leaves the object's body (by return or by raise)
Leave(v, st) ==
    IF v.k = "ref"
    THEN [st EXCEPT !.stack = SubSeq(@, 1, Len(@) - 1)]
    ELSE st

\* line 425: del self._recursion_map[id(obj)]
Finally(v, st) ==
    IF v.k = "ref" THEN [st EXCEPT !.rmap = MapDel(@, v.a)] ELSE st

Emit(v, id, entry, st) ==
    [st EXCEPT !.nodes = Append(@, [a |-> IF v.k = "ref" THEN v.a ELSE 0,
                                    id |-> id, entry |-> entry])]

\* lines 402-408 and 424-425: the node of a list or a dict, r the outcome of
\* deconstructing its children (an exception they raise leaves before the
\* try block is entered); "__id__" is self._counter as the children left it
RawNode(v, entry, t, r) ==
    IF r.st.exc # "" THEN Raise(r.st.exc, r.st)
    ELSE Ret(Node(r.st.counter, PyNone,
                  IF t = "dict" THEN PyDict(r.out) ELSE PyList(r.out)),
             Finally(v, Emit(v, r.st.counter, entry, r.st)))

\* lines 419-425: "__id__" is read before _get_representation runs, g its
\* outcome
TypedNodeEnd(v, id, entry, info, g) ==
    IF g.st.exc # "" THEN Raise(g.st.exc, Finally(v, g.st))
    ELSE Ret(Node(id, info, g.val), Finally(v, Emit(v, id, entry, g.st)))

\* lines 410-425
TypedNode(v, entry, info, repr_obj, st) ==
    IF import_object_source(DictGet(info.pairs, "full_path").s).exc # ""
    THEN Raise("TypeError: unreachable code", Finally(v, st))
    ELSE TypedNodeEnd(v, st.counter, entry, info,
                      _get_representation(repr_obj, st))

\* lines 394 and 410-425: a tuple or a set, r the outcome of deconstructing
\* its elements
IterableNode(v, entry, r) ==
    IF r.st.exc # "" THEN Raise(r.st.exc, r.st)
    ELSE TypedNode(v, entry, get_object_source_info(r.st.heap, v),
                   PyList(r.out), r.st)

\* lines 380-425, for an object not yet in progress; counter and
\* _recursion_map are already updated
DeconstructBody(v, t, st) ==
    IF t = "dict"
    THEN RawNode(v, st.counter, t,
                 DeconstructPairs(Pairs(st.heap, v), <<>>, st))
    ELSE IF t = "list"
    THEN RawNode(v, st.counter, t,
                 DeconstructItems(Items(st.heap, v), <<>>, st))
    ELSE IF t \in {"tuple", "set"}
    THEN IterableNode(v, st.counter,
                      DeconstructItems(Items(st.heap, v), <<>>, st))
    ELSE IF t = "private"
    THEN \* line 400: returns before the try block is entered
         Ret(CUSTOM_NONE_TYPE, st)
    ELSE \* a plain object, or CUSTOM_NONE_TYPE itself
         TypedNode(v, st.counter, get_object_source_info(st.heap, v), v, st)

\* the call returns or raises: the object's body is left
DeconstructLeave(v, b) == [val |-> b.val, st |-> Leave(v, b.st)]

\* lines 372-378
DeconstructCounted(v, st) ==
    IF History(v, st) # 0
    THEN Ret(RecursionRef(History(v, st)),
             [st EXCEPT !.refs = Append(@, [a |-> v.a,
                                            val |-> History(v, st),
                                            anc |-> InSeq(v.a, st.stack)])])
    ELSE DeconstructLeave(v, DeconstructBody(v, TypeOf(st.heap, v),
                                             Enter(v, st)))

\* lines 361-370
DeconstructCall(v, st) ==
    IF _is_primitive_object(v) THEN Ret(v, st)
    ELSE IF _check_unsupported_types(st.heap, v)
    THEN Raise("TypeError: unsupported type", st)
    ELSE IF _is_proto_object(st.heap, v) THEN Ret(v, st)
    ELSE DeconstructCounted(v, [st EXCEPT !.counter = @ + 1])

\* the frame of the call is popped
DeconstructReturn(r) == [val |-> r.val, st |-> [r.st EXCEPT !.depth = @ - 1]]

_deconstruct(v, st) ==
    IF st.depth >= RecursionLimit THEN Raise("RecursionError", st)
    ELSE DeconstructReturn(DeconstructCall(v, [st EXCEPT !.depth = @ + 1]))

(***************************************************************************)
(* ZeroSerobjProtocol._construct.  A result is [exc, val]: the exception   *)
(* raised ("" for none) and the value returned.                            *)
(***************************************************************************)
Ok(v) == [exc |-> "", val |-> v]
Fail(e) == [exc |-> e, val |-> PyNone]

\* Python truth value of what a node's source / representation can hold
Falsy(h, v) ==
    \/ v = PyNone
    \/ v.k = "bool" /\ ~v.b
    \/ v.k = "int" /\ v.i = 0
    \/ v.k = "float" /\ v.f = 0
    \/ v.k = "str" /\ v.s = ""
    \/ TypeOf(h, v) \in {"list", "tuple", "set"} /\ Items(h, v) = <<>>
    \/ TypeOf(h, v) = "dict" /\ Pairs(h, v) = <<>>

RECURSIVE Dedup(_)
Dedup(s) ==
    IF s = <<>> THEN <<>>
    ELSE LET d == Dedup(SubSeq(s, 1, Len(s) - 1))
         IN  IF InSeq(s[Len(s)], d) THEN d ELSE Append(d, s[Len(s)])

Call(fn, args, kwargs) == [fn |-> fn, args |-> args, kwargs |-> kwargs]

\* obj_source(*args, **kwargs): the type's ordinary constructor
CallType(cls, args, kwargs) ==
    IF cls.path = "builtins:range"
    THEN IF \/ kwargs # <<>>
            \/ Len(args) \notin 1..3
            \/ \E j \in DOMAIN args : args[j].k \notin {"int", "bool"}
         THEN Fail("TypeError: constructor arguments")
         ELSE IF Len(args) = 3 /\ args[3] \in {PyInt(0), PyBool(FALSE)}
         THEN Fail("ValueError: range() arg 3 must not be zero")
         ELSE Ok(PyRange(args))
    ELSE IF cls.path \in {"builtins:tuple", "builtins:set"}
    THEN IF kwargs # <<>> \/ Len(args) > 1
         THEN Fail("TypeError: constructor arguments")
         ELSE IF args = <<>>
         THEN Ok(IF cls.path = "builtins:tuple"
                 THEN PyTuple(<<>>) ELSE PySet(<<>>))
         ELSE IF args[1].k \notin {"list", "tuple", "set"}
         THEN Fail("TypeError: object is not iterable")
         ELSE IF cls.path = "builtins:tuple"
         THEN Ok(PyTuple(args[1].items))
         ELSE IF \E i \in DOMAIN args[1].items :
                     args[1].items[i].k \in {"list", "dict", "set"}
         THEN Fail("TypeError: unhashable type")
         ELSE Ok(PySet(Dedup(args[1].items)))
    ELSE Ok(PyObject(cls.path, <<Call("call", args, kwargs)>>, <<>>))

\* method_new(obj_source, *args, **kwargs): set.__new__ allocates an empty
\* set whatever its arguments, tuple.__new__ and range.__new__ build the
\* value
CallNew(cls, args, kwargs) ==
    IF cls.path = "builtins:set" THEN Ok(PySet(<<>>))
    ELSE IF cls.path \in {"builtins:tuple", "builtins:range"}
    THEN CallType(cls, args, kwargs)
    ELSE Ok(PyObject(cls.path, <<Call("new", args, kwargs)>>, <<>>))

\* method_init(obj, *args, **kwargs): set.__init__ refills the set, the
\* initializer of tuple and of range is object.__init__, which leaves them
\* as they are
CallInit(obj, args, kwargs) ==
    IF obj.k = "object"
    THEN Ok([obj EXCEPT !.calls = Append(@, Call("init", args, kwargs))])
    ELSE IF obj.k = "set"
    THEN CallType(PyClass("builtins:set"), args, kwargs)
    ELSE Ok(obj)

\* lines 520-526: __setstate__ or setattr
SetState(obj, state) ==
    IF state = <<>> THEN Ok(obj)
    ELSE IF obj.k = "object" THEN Ok([obj EXCEPT !.state = state])
    ELSE IF obj.k = "class" THEN Ok(obj)
    ELSE Fail("AttributeError")

RECURSIVE _construct(_, _)
RECURSIVE ConstructItems(_, _, _)
RECURSIVE ConstructPairs(_, _, _)
RECURSIVE _construct_args(_, _, _, _)

\* [self._construct(v) for v in obj]
ConstructItemsNext(h, vs, acc, r) ==
    IF r.exc # "" THEN [exc |-> r.exc, out |-> acc]
    ELSE ConstructItems(h, Tail(vs), Append(acc, r.val))

ConstructItems(h, vs, acc) ==
    IF vs = <<>> THEN [exc |-> "", out |-> acc]
    ELSE ConstructItemsNext(h, vs, acc, _construct(h, Head(vs)))

\* {self._construct(k): self._construct(v) for k, v in obj.items()}
ConstructPairsNext(h, ps, acc, r) ==
    IF r.exc # "" THEN [exc |-> r.exc, out |-> acc]
    ELSE ConstructPairs(h, Tail(ps), DictSet(acc, Head(ps).key, r.val))

ConstructPairs(h, ps, acc) ==
    IF ps = <<>> THEN [exc |-> "", out |-> acc]
    ELSE ConstructPairsNext(h, ps, acc, _construct(h, Head(ps).val))

\* the dict / list the comprehension built, r the outcome of the loop
NewDict(r) == IF r.exc # "" THEN Fail(r.exc) ELSE Ok(PyDict(r.out))
NewList(r) == IF r.exc # "" THEN Fail(r.exc) ELSE Ok(PyList(r.out))

\* a reconstruction that leaves the children of a raw container as they
\* are in the document (the fault C1_RoundTrip excludes)
_construct_no_proto_shallow(h, obj) == Ok(obj)

_construct_no_proto(h, obj) ==
    LET t == TypeOf(h, obj)
    IN  IF t = "prim" THEN Ok(obj)
        ELSE IF t = "dict"
        THEN NewDict(ConstructPairs(h, Pairs(h, obj), <<>>))
        ELSE IF t \in {"list", "tuple", "set"}
        THEN NewList(ConstructItems(h, Items(h, obj), <<>>))
        ELSE Ok(obj)

\* lines 463-471
ConstructArgsNext(h, args, call_args, call_kwargs, arg_name, r) ==
    IF r.exc # "" THEN [exc |-> r.exc, args |-> <<>>, kwargs |-> <<>>]
    ELSE IF ~Falsy(h, arg_name)
    THEN _construct_args(h, Tail(args), call_args,
                         DictSet(call_kwargs, arg_name.s, r.val))
    ELSE _construct_args(h, Tail(args), Append(call_args, r.val), call_kwargs)

_construct_args(h, args, call_args, call_kwargs) ==
    IF args = <<>>
    THEN [exc |-> "", args |-> call_args, kwargs |-> call_kwargs]
    ELSE ConstructArgsNext(h, args, call_args, call_kwargs,
                           DictGet(Pairs(h, Head(args)), "name"),
                           _construct(h, DictGet(Pairs(h, Head(args)),
                                                 "value")))

NoCallArgs == [exc |-> "", args |-> <<>>, kwargs |-> <<>>]

\* lines 520-528, state the outcome of constructing the attrs
ConstructState(obj, state) ==
    IF state.exc # "" THEN Fail(state.exc) ELSE SetState(obj, state.out)

\* lines 516-528, built the outcome of the constructor calls
ConstructAttrs(h, attrs, built) ==
    IF built.exc # "" THEN built
    ELSE ConstructState(built.val, ConstructPairs(h, Pairs(h, attrs), <<>>))

\* a reconstruction that leaves out the call of method_init (the fault
\* C18_Dispatch excludes)
ConstructInitSkipped(o, i) == o

\* line 510: method_init(obj, *i_args, **i_kwargs), o the outcome of
\* method_new
ConstructInit(o, i) ==
    IF o.exc # "" THEN o ELSE CallInit(o.val, i.args, i.kwargs)

\* lines 494-497: obj_source(*i_args, **i_kwargs), for range with the
\* elements of the first positional argument as i_args
ConstructCall(obj_source, i) ==
    IF obj_source.path # "builtins:range"
    THEN CallType(obj_source, i.args, i.kwargs)
    ELSE IF i.args = <<>> THEN Fail("IndexError")
    ELSE IF i.args[1].k \in {"list", "tuple", "set"}
    THEN CallType(obj_source, i.args[1].items, i.kwargs)
    ELSE IF i.args[1].k = "dict"
    THEN CallType(obj_source,
                  [j \in DOMAIN i.args[1].pairs |->
                     PyStr(i.args[1].pairs[j].key)],
                  i.kwargs)
    ELSE Fail("TypeError: constructor arguments")

\* lines 485-512: the constructor calls, n and i the outcomes of
\* _construct_args on new_args and on init_args
ConstructCalls(obj_source, new_args, init_args, n, i) ==
    IF new_args = PyNone /\ init_args = PyNone THEN Ok(obj_source)
    ELSE IF new_args = PyNone
    THEN IF init_args = _INIT_LIKE_NEW_KEY THEN Ok(obj_source)
         ELSE IF i.exc # "" THEN Fail(i.exc)
         ELSE ConstructCall(obj_source, i)
    ELSE IF n.exc # "" THEN Fail(n.exc)
    ELSE IF init_args = PyNone
    THEN CallNew(obj_source, n.args, n.kwargs)
    ELSE IF i.exc # "" THEN Fail(i.exc)
    ELSE ConstructInit(CallNew(obj_source, n.args, n.kwargs), i)

\* lines 500-507: i_args, i_kwargs
ConstructInitArgs(h, obj_source, attrs, new_args, init_args, n) ==
    ConstructAttrs(h, attrs,
        ConstructCalls(obj_source, new_args, init_args, n,
            IF init_args = PyNone THEN NoCallArgs
            ELSE IF init_args = _INIT_LIKE_NEW_KEY THEN n
            ELSE _construct_args(h, Items(h, init_args), <<>>, <<>>)))

\* lines 459-461 and 497-501: attrs, new_args, init_args and n_args, n_kwargs
ConstructRepresentation(h, obj_source, attrs, new_args, init_args) ==
    ConstructInitArgs(h, obj_source, attrs, new_args, init_args,
        IF new_args # PyNone
        THEN _construct_args(h, Items(h, new_args), <<>>, <<>>)
        ELSE NoCallArgs)

\* representation.get(key, default)
RepresentationGet(rp, key, default) ==
    IF DictHas(rp, key) THEN DictGet(rp, key) ELSE default

\* lines 454-461, imp the outcome of import_object_source
ConstructSource(h, imp, representation) ==
    IF imp.exc # "" THEN Fail(imp.exc)
    ELSE IF Falsy(h, representation) THEN Ok(imp.val)
    ELSE IF TypeOf(h, representation) # "dict" THEN Fail("AttributeError")
    ELSE ConstructRepresentation(
             h, imp.val,
             RepresentationGet(Pairs(h, representation), "attrs",
                               PyDict(<<>>)),
             RepresentationGet(Pairs(h, representation), "new_args", PyNone),
             RepresentationGet(Pairs(h, representation), "init_args", PyNone))

\* lines 454-528: a node with a source
ConstructTyped(h, source, representation) ==
    IF ~DictHas(Pairs(h, source), "full_path") THEN Fail("KeyError")
    ELSE ConstructSource(
             h,
             import_object_source(DictGet(Pairs(h, source), "full_path").s),
             representation)

\* a reconstruction that takes a cycle reference for an ordinary mapping (the
\* fault C5_CyclesRejected excludes)
_construct_placeholder(h, obj) ==
    IF ~IsDictValue(h, obj) THEN _construct_no_proto(h, obj)
    ELSE IF ~_SCHEMA_VALIDATOR(h, Pairs(h, obj))
    THEN _construct_no_proto(h, obj)
    ELSE IF Falsy(h, DictGet(Pairs(h, obj), "source"))
    THEN _construct_no_proto(h, DictGet(Pairs(h, obj), "representation"))
    ELSE ConstructTyped(h, DictGet(Pairs(h, obj), "source"),
                        DictGet(Pairs(h, obj), "representation"))

_construct(h, obj) ==
    IF ~IsDictValue(h, obj) THEN _construct_no_proto(h, obj)
    ELSE IF DictHas(Pairs(h, obj), _RECURSION_KEY)
    THEN Fail("ValueError: recursion is not supported yet")
    ELSE IF ~_SCHEMA_VALIDATOR(h, Pairs(h, obj))
    THEN _construct_no_proto(h, obj)
    ELSE IF Falsy(h, DictGet(Pairs(h, obj), "source"))
    THEN _construct_no_proto(h, DictGet(Pairs(h, obj), "representation"))
    ELSE ConstructTyped(h, DictGet(Pairs(h, obj), "source"),
                        DictGet(Pairs(h, obj), "representation"))

(***************************************************************************)
(* The state.                                                              *)
(*   heap      the live objects of the caller                              *)
(*   phase     "build" while the caller builds the object graph and        *)
(*             registers protocols, then what it called: "dumped",         *)
(*             "loaded" or "redumped"                                      *)
(*   call      the arguments of the dumps call, and the heap as it was     *)
(*             when dumps was called                                       *)
(*   env       the outcome of dumps: exception, envelope, the class whose  *)
(*             instance ran the deconstruction                             *)
(*   pass      the deconstruction pass of that call as it ended            *)
(*   shared    _counter and _recursion_map of a protocol instance the      *)
(*             caller keeps and hands to dumps                             *)
(*   res       the outcome of loads                                        *)
(*   redo      the outcome of dumps on the payload dumps returned          *)
(*   classes   the concrete or abstract protocol classes defined so far;   *)
(*             a class is named by its index                               *)
(*   regexc    the exception the last class statement raised               *)
(*   _PROTOCOLS, _DEFAULT_PROTOCOL   base.py lines 19-20 (0 for None)      *)
(***************************************************************************)
VARIABLES heap, phase, call, env, pass, shared, res, redo,
          classes, regexc, _PROTOCOLS, _DEFAULT_PROTOCOL

vars == <<heap, phase, call, env, pass, shared, res, redo,
          classes, regexc, _PROTOCOLS, _DEFAULT_PROTOCOL>>

(***************************************************************************)
(* The protocol registry: SerobjProtocolMeta.__new__ (base.py 105-138).    *)
(***************************************************************************)
Registered(name, version) ==
    name \in DOMAIN _PROTOCOLS /\ version \in DOMAIN _PROTOCOLS[name]

\* _PROTOCOLS.get(protocol_name, {})
ProtocolsGet(name) ==
    IF name \in DOMAIN _PROTOCOLS THEN _PROTOCOLS[name] ELSE EmptyMap

\* a registration that replaces an entry already there (the fault
\* C9_AppendOnly excludes)
SerobjProtocolMeta__new__Replace(decl_name, decl_version, abstract) ==
    LET protocol_name == IF decl_name = "" THEN _DEFAULT_PROTOCOL_NAME
                         ELSE decl_name
        cls == Len(classes) + 1
    IN  /\ classes' = Append(classes, [name |-> protocol_name,
                                       version |-> decl_version,
                                       abstract |-> abstract])
        /\ regexc' = ""
        /\ _PROTOCOLS' =
              IF abstract THEN _PROTOCOLS
              ELSE MapSet(_PROTOCOLS, protocol_name,
                          MapSet(ProtocolsGet(protocol_name),
                                 decl_version, cls))
        /\ _DEFAULT_PROTOCOL' =
              IF ~abstract /\ _DEFAULT_PROTOCOL = 0 THEN cls
              ELSE _DEFAULT_PROTOCOL

\* decl_name is the class body's PROTOCOL_NAME ("" when it has none, None or
\* an empty one) and decl_version its PROTOCOL_VERSION (0 when it has none)
SerobjProtocolMeta__new__(decl_name, decl_version, abstract) ==
    LET protocol_name == IF decl_name = "" THEN _DEFAULT_PROTOCOL_NAME
                         ELSE decl_name
        protocol_version == decl_version
        cls == Len(classes) + 1
    IN  /\ classes' = Append(classes, [name |-> protocol_name,
                                       version |-> protocol_version,
                                       abstract |-> abstract])
        /\ IF abstract
           THEN /\ regexc' = ""
                /\ UNCHANGED <<_PROTOCOLS, _DEFAULT_PROTOCOL>>
           ELSE IF Registered(protocol_name, protocol_version)
           THEN /\ regexc' = "RuntimeError: already registered"
                /\ UNCHANGED <<_PROTOCOLS, _DEFAULT_PROTOCOL>>
           ELSE /\ regexc' = ""
                /\ _PROTOCOLS' =
                     MapSet(_PROTOCOLS, protocol_name,
                            MapSet(ProtocolsGet(protocol_name),
                                   protocol_version, cls))
                /\ _DEFAULT_PROTOCOL' =
                     IF \/ _DEFAULT_PROTOCOL = 0
                        \/ /\ protocol_name = _DEFAULT_PROTOCOL_NAME
                           /\ classes[_DEFAULT_PROTOCOL].version
                                < protocol_version
                     THEN cls
                     ELSE _DEFAULT_PROTOCOL

\* a class statement with metaclass SerobjProtocolMeta
Register(decl_name, decl_version, abstract) ==
    /\ phase = "build"
    /\ Len(classes) <= MaxClasses
    /\ SerobjProtocolMeta__new__(decl_name, decl_version, abstract)
    /\ UNCHANGED <<phase, heap, call, env, pass, shared, res, redo>>

(***************************************************************************)
(* dumps and SerobjProtocolBase.serialize (base.py 51-88, 145-152).        *)
(***************************************************************************)
\* the protocol argument of dumps
ProtocolNone == [kind |-> "none"]
\* a string, as the parts between its "@" signs
ProtocolStr(parts) == [kind |-> "str", parts |-> parts]
ProtocolClass(cls) == [kind |-> "class", cls |-> cls]
\* the protocol instance the caller keeps, an instance of cls
ProtocolInstance(cls) == [kind |-> "instance", cls |-> cls]

\* int(s) on the decimal strings of the model: leading zeros and blanks are
\* accepted, anything else raises ValueError
ParseInt(s) ==
    LET range == 0 .. (MaxVersion + 1)
        hit == {n \in range :
                  s \in {ToString(n), "0" \o ToString(n), " " \o ToString(n)}}
    IN  IF hit = {} THEN [exc |-> "ValueError: invalid literal", val |-> 0]
        ELSE [exc |-> "", val |-> CHOOSE n \in hit : TRUE]

\* a selection of the lowest version (the fault C7_ProtocolSelection excludes)
Lowest(S) == CHOOSE x \in S : \A y \in S : x <= y

\* sorted(protocols_dict.keys())[-1]
Max(S) == CHOOSE x \in S : \A y \in S : y <= x

\* lines 56-81: the class dumps instantiates, or the instance it is given
SelectProtocol(protocol) ==
    LET none == [exc |-> "ValueError: protocol must inherit", cls |-> 0,
                 given |-> FALSE]
        class(c) == [exc |-> "", cls |-> c, given |-> FALSE]
        \* protocol or _DEFAULT_PROTOCOL
        falsy == \/ protocol.kind = "none"
                 \/ protocol.kind = "str" /\ protocol.parts = <<"">>
    IN  IF falsy
        THEN IF _DEFAULT_PROTOCOL = 0 THEN none
             ELSE class(_DEFAULT_PROTOCOL)
        ELSE IF protocol.kind = "str"
        THEN LET protocol_tuple == protocol.parts
                 protocol_name == protocol_tuple[1]
             IN  IF Len(protocol_tuple) \notin {1, 2}
                 THEN [none EXCEPT !.exc = "ValueError: bad protocol argument"]
                 ELSE IF Len(protocol_tuple) = 2
                 THEN LET v == ParseInt(protocol_tuple[2])
                      IN  IF v.exc # "" THEN [none EXCEPT !.exc = v.exc]
                          ELSE IF ~Registered(protocol_name, v.val)
                          THEN [none EXCEPT !.exc = "KeyError"]
                          ELSE class(_PROTOCOLS[protocol_name][v.val])
                 ELSE IF protocol_name \notin DOMAIN _PROTOCOLS
                 THEN [none EXCEPT !.exc = "KeyError"]
                 ELSE LET protocols_dict == _PROTOCOLS[protocol_name]
                          last_version == Max(DOMAIN protocols_dict)
                      IN  class(protocols_dict[last_version])
        ELSE IF protocol.kind = "class" THEN class(protocol.cls)
        ELSE [exc |-> "", cls |-> protocol.cls, given |-> TRUE]

Envelope(protocol_name, protocol_version, payload) ==
    PyDict(<< Pair("meta",
                   PyDict(<< Pair("protocol", PyStr(protocol_name)),
                             Pair("version", PyInt(protocol_version)) >>)),
              Pair("payload", payload) >>)

\* lines 147-152, r the outcome of _deconstruct
SerializeEnvelope(cls, r) ==
    [val |-> Envelope(classes[cls].name, classes[cls].version, r.val),
     st |-> r.st]

\* SerobjProtocolBase.serialize on an instance of class cls whose _counter
\* and _recursion_map are `instance`
serialize(cls, instance, real_obj) ==
    SerializeEnvelope(cls, _deconstruct(real_obj, PassState(heap, instance)))

\* line 88, r the outcome of serialize
DumpsReturn(cls, r) ==
    [exc |-> r.st.exc,
     val |-> IF r.st.exc = "" THEN r.val ELSE PyNone,
     by |-> cls,
     st |-> r.st]

\* lines 83-88, sel the protocol selected
DumpsSerialize(obj, sel) ==
    IF sel.exc # ""
    THEN [exc |-> sel.exc, val |-> PyNone, by |-> 0,
          st |-> PassState(heap, NewInstance)]
    ELSE DumpsReturn(sel.cls,
                     serialize(sel.cls,
                               IF sel.given THEN shared ELSE NewInstance,
                               obj))

\* dumps(obj, protocol): [exc, val, by, st]
dumps(obj, protocol) == DumpsSerialize(obj, SelectProtocol(protocol))

InstanceOf(st) == [counter |-> st.counter, rmap |-> st.rmap]

\* the program has called dumps(obj, protocol), r the outcome
DumpsCalled(obj, protocol, r) ==
    /\ env' = [exc |-> r.exc, val |-> r.val, by |-> r.by]
    /\ pass' = r.st
    /\ heap' = r.st.heap
    /\ shared' = IF protocol.kind = "instance" /\ r.by # 0
                 THEN InstanceOf(r.st) ELSE shared
    /\ call' = [obj |-> obj, protocol |-> protocol, heap |-> heap]
    /\ phase' = "dumped"
    /\ UNCHANGED <<res, redo, classes, regexc, _PROTOCOLS, _DEFAULT_PROTOCOL>>

Dumps(obj, protocol) ==
    /\ phase = "build"
    /\ DumpsCalled(obj, protocol, dumps(obj, protocol))

RedumpsCalled(r) ==
    /\ redo' = [exc |-> r.exc, val |-> r.val, by |-> r.by]
    /\ heap' = r.st.heap
    /\ phase' = "redumped"
    /\ UNCHANGED <<call, env, pass, shared, res,
                   classes, regexc, _PROTOCOLS, _DEFAULT_PROTOCOL>>

\* dumps on the payload an earlier dumps returned
Redumps ==
    /\ phase = "dumped"
    /\ env.exc = ""
    /\ RedumpsCalled(dumps(DictGet(env.val.pairs, "payload"), ProtocolNone))

(***************************************************************************)
(* loads, SerobjProtocolBase.deserialize and is_compatible_proto_obj       *)
(* (base.py 31-48, 154-156; zero.py 530-564).                              *)
(***************************************************************************)
\* raise_exception = True, allow_raw_value = True
is_compatible_proto_obj(proto_obj) ==
    IF /\ IsDictValue(heap, proto_obj)
       /\ DictHas(Pairs(heap, proto_obj), "meta")
       /\ DictHas(Pairs(heap, proto_obj), "payload")
    THEN LET payload == DictGet(Pairs(heap, proto_obj), "payload")
         IN  IF ~IsDictValue(heap, payload) THEN ""
             ELSE IF _SCHEMA_VALIDATOR(heap, Pairs(heap, payload)) THEN ""
             ELSE "ValueError: SCHEMA_VALIDATOR"
    ELSE "ValueError: invalid Serialized Proto Object"

deserialize(proto_obj) ==
    IF is_compatible_proto_obj(proto_obj) # ""
    THEN Fail(is_compatible_proto_obj(proto_obj))
    ELSE _construct(heap, DictGet(Pairs(heap, proto_obj), "payload"))

\* line 48, r the outcome of protocol.deserialize
LoadsReturn(cls, r) == [exc |-> r.exc, val |-> r.val, by |-> cls]

\* a lookup that falls back to the default protocol (the fault
\* C8_ProtocolLookup excludes)
LoadsLookupDefault(proto_obj, protocol_name, protocol_version) ==
    IF /\ protocol_name.k = "str"
       /\ protocol_version.k = "int"
       /\ Registered(protocol_name.s, protocol_version.i)
    THEN LoadsReturn(_PROTOCOLS[protocol_name.s][protocol_version.i],
                     deserialize(proto_obj))
    ELSE LoadsReturn(_DEFAULT_PROTOCOL, deserialize(proto_obj))

\* lines 41-48
LoadsLookup(proto_obj, protocol_name, protocol_version) ==
    IF ~(/\ protocol_name.k = "str"
         /\ protocol_version.k = "int"
         /\ Registered(protocol_name.s, protocol_version.i))
    THEN [exc |-> "ValueError: proto_obj protocol not found",
          val |-> PyNone, by |-> 0]
    ELSE LoadsReturn(_PROTOCOLS[protocol_name.s][protocol_version.i],
                     deserialize(proto_obj))

\* proto_obj["meta"], an empty mapping when the subscription raises
LoadsMeta(proto_obj) ==
    IF /\ IsDictValue(heap, proto_obj)
       /\ DictHas(Pairs(heap, proto_obj), "meta")
       /\ IsDictValue(heap, DictGet(Pairs(heap, proto_obj), "meta"))
    THEN Pairs(heap, DictGet(Pairs(heap, proto_obj), "meta"))
    ELSE <<>>

\* loads(proto_obj): [exc, val, by]
loads(proto_obj) ==
    IF ~(/\ DictHas(LoadsMeta(proto_obj), "protocol")
         /\ DictHas(LoadsMeta(proto_obj), "version"))
    THEN [exc |-> "ValueError: proto_obj has not protocol and/or "
                  \o "version information",
          val |-> PyNone, by |-> 0]
    ELSE LoadsLookup(proto_obj,
                     DictGet(LoadsMeta(proto_obj), "protocol"),
                     DictGet(LoadsMeta(proto_obj), "version"))

\* the program has called loads(proto_obj), r the outcome
LoadsCalled(proto_obj, r) ==
    /\ res' = [exc |-> r.exc, val |-> r.val, by |-> r.by, arg |-> proto_obj]
    /\ phase' = "loaded"
    /\ UNCHANGED <<heap, call, env, pass, shared, redo,
                   classes, regexc, _PROTOCOLS, _DEFAULT_PROTOCOL>>

Loads(proto_obj) ==
    /\ phase \in {"build", "dumped"}
    /\ LoadsCalled(proto_obj, loads(proto_obj))

(***************************************************************************)
(* The caller's program: it builds an object graph, one object or one      *)
(* child at a time, and then calls dumps, and loads on what dumps          *)
(* returned.                                                               *)
(***************************************************************************)
\* the primitives a graph holds, and those handed to dumps on their own
PrimPool == {PyNone, PyInt(1)}
Prims == {PyNone, PyBool(TRUE), PyInt(1), PyFloat(15), PyStr("s")}

\* mappings the caller made that have the shape of a node (the test suite's
\* documents embedded in values): they hold no live object
ProtoObjs ==
    { DictObj(<< Pair(_PROTOCOL_ID_KEY, PyInt(7)), Pair("source", PyNone),
                 Pair("representation", PyNone) >>),
      DictObj(<< Pair(_PROTOCOL_ID_KEY, PyInt(7)), Pair("source", PyNone),
                 Pair("representation", PyList(<<PyInt(1)>>)) >>) }

\* the objects a program creates, before it fills them
Templates ==
    { ListObj(<<>>), TupleObj(<<>>), SetObj(<<>>), DictObj(<<>>),
      PlainObj(UserClass, <<>>, NoArgs, NoArgs), PrivateObj, ModuleObj }
    \cup ProtoObjs

\* the i-th key a program gives a dict, attribute name it gives an object,
\* and name it gives a construction argument ("" for a positional one)
KeyName(i) == IF i = 1 THEN "a" ELSE IF i = 2 THEN _RECURSION_KEY
              ELSE "k" \o ToString(i)
AttrName(i) == IF i = 1 THEN "x" ELSE "y" \o ToString(i)
ArgName(i) == IF i = 1 THEN "" ELSE "kw" \o ToString(i)

\* the places of an object a child can be put in
SlotsOf(o) ==
    IF o \in ProtoObjs THEN {}
    ELSE IF o.t \in {"list", "tuple", "set"} THEN {"items"}
    ELSE IF o.t = "dict" THEN {"pairs"}
    ELSE IF o.t = "obj" THEN {"attrs", "new_args", "init_args"}
    ELSE {}

AddChild(o, slot, v) ==
    IF slot = "items" THEN [o EXCEPT !.items = Append(@, v)]
    ELSE IF slot = "pairs"
    THEN [o EXCEPT !.pairs = Append(@, Pair(KeyName(Len(@) + 1), v))]
    ELSE IF slot = "attrs"
    THEN [o EXCEPT !.attrs = Append(@, Pair(AttrName(Len(@) + 1), v))]
    ELSE IF slot = "new_args"
    THEN [o EXCEPT !.new_args =
            [has |-> TRUE,
             args |-> Append(@.args, Arg(ArgName(Len(@.args) + 1), v))]]
    ELSE [o EXCEPT !.init_args =
            [has |-> TRUE,
             args |-> Append(@.args, Arg(ArgName(Len(@.args) + 1), v))]]

\* the children of an object, in the order the engine visits them
Children(o) ==
    IF o \in ProtoObjs THEN <<>>
    ELSE IF o.t \in {"list", "tuple", "set"} THEN o.items
    ELSE IF o.t = "dict" THEN [i \in DOMAIN o.pairs |-> o.pairs[i].val]
    ELSE IF o.t = "obj"
    THEN [i \in DOMAIN o.attrs |-> o.attrs[i].val]
         \o [i \in DOMAIN o.new_args.args |-> o.new_args.args[i].value]
         \o [i \in DOMAIN o.init_args.args |-> o.init_args.args[i].value]
    ELSE <<>>

RECURSIVE SumLen(_, _)
SumLen(h, n) == IF n = 0 THEN 0 ELSE Len(Children(h[n])) + SumLen(h, n - 1)
Slots(h) == SumLen(h, Len(h))

\* Python value equality, as a canonical form: a list and a tuple by their
\* elements in order, a set by its elements, a dict by its items, any other
\* object by identity.  n bounds the nesting looked at.
RECURSIVE Abs(_, _, _)
Abs(h, v, n) ==
    LET t == TypeOf(h, v)
    IN  IF n = 0 \/ t \notin {"list", "tuple", "set", "dict"} THEN v
        ELSE IF t = "dict"
        THEN [k |-> "dict",
              pairs |-> {Pair(Pairs(h, v)[i].key,
                              Abs(h, Pairs(h, v)[i].val, n - 1)) :
                         i \in DOMAIN Pairs(h, v)}]
        ELSE IF t = "set"
        THEN [k |-> "set",
              items |-> {Abs(h, Items(h, v)[i], n - 1) :
                         i \in DOMAIN Items(h, v)}]
        ELSE [k |-> t,
              items |-> [i \in DOMAIN Items(h, v) |->
                           Abs(h, Items(h, v)[i], n - 1)]]

\* hash(v) does not raise: n bounds the nesting looked at, so a tuple that
\* holds itself through tuples only (which no program can build) is not
RECURSIVE Hashable(_, _, _)
Hashable(h, v, n) ==
    LET t == TypeOf(h, v)
    IN  IF t \in {"list", "set", "dict"} THEN FALSE
        ELSE IF t # "tuple" THEN TRUE
        ELSE n > 0 /\ \A i \in DOMAIN Items(h, v) :
                         Hashable(h, Items(h, v)[i], n - 1)

\* graphs Python can hold: the elements of a set are hashable and pairwise
\* unequal, and a tuple, immutable once built, is part of no cycle made of
\* tuples alone
RECURSIVE TupleReach(_, _, _, _)
TupleReach(h, a, target, n) ==
    \E i \in DOMAIN h[a].items :
       LET v == h[a].items[i]
       IN  /\ TypeOf(h, v) = "tuple"
           /\ v.k = "ref"
           /\ \/ v.a = target
              \/ n > 0 /\ TupleReach(h, v.a, target, n - 1)

WellFormed(h) ==
    \A a \in DOMAIN h :
       /\ h[a].t = "tuple" => ~TupleReach(h, a, a, Len(h))
       /\ h[a].t = "set" =>
              /\ \A i \in DOMAIN h[a].items :
                    Hashable(h, h[a].items[i], Len(h))
              /\ \A i, j \in DOMAIN h[a].items :
                    i # j => Abs(h, h[a].items[i], Len(h))
                             # Abs(h, h[a].items[j], Len(h))

\* the program creates its first object
NewRoot(o) ==
    /\ phase = "build"
    /\ heap = <<>>
    /\ heap' = <<o>>
    /\ UNCHANGED <<phase, call, env, pass, shared, res, redo,
                   classes, regexc, _PROTOCOLS, _DEFAULT_PROTOCOL>>

\* the program puts a primitive or an object it already has into object a
Put(a, slot, v) ==
    /\ phase = "build"
    /\ a \in DOMAIN heap
    /\ slot \in SlotsOf(heap[a])
    /\ Slots(heap) < MaxSlots
    /\ v.k = "ref" => v.a \in DOMAIN heap
    /\ LET h == [heap EXCEPT ![a] = AddChild(@, slot, v)]
       IN  /\ WellFormed(h)
           /\ heap' = h
    /\ UNCHANGED <<phase, call, env, pass, shared, res, redo,
                   classes, regexc, _PROTOCOLS, _DEFAULT_PROTOCOL>>

\* the program creates an object and puts it into object a
PutNew(a, slot, o) ==
    /\ phase = "build"
    /\ a \in DOMAIN heap
    /\ slot \in SlotsOf(heap[a])
    /\ Slots(heap) < MaxSlots
    /\ Len(heap) < MaxObjs
    /\ LET b == Len(heap) + 1
           h == Append([heap EXCEPT ![a] = AddChild(@, slot, Ref(b))], o)
       IN  /\ WellFormed(h)
           /\ heap' = h
    /\ UNCHANGED <<phase, call, env, pass, shared, res, redo,
                   classes, regexc, _PROTOCOLS, _DEFAULT_PROTOCOL>>

SlotNames == {"items", "pairs", "attrs", "new_args", "init_args"}
Objs == 1 .. MaxObjs

\* the value the program hands to dumps: its first object, or a primitive
Roots == IF heap = <<>> THEN Prims ELSE {Ref(1)}

NoOutcome == [exc |-> "", val |-> PyNone, by |-> 0]

\* base.py imported: SerobjProtocolBase is defined, an abstract class
InitRegistry ==
    /\ classes = << [name |-> _DEFAULT_PROTOCOL_NAME, version |-> 0,
                     abstract |-> TRUE] >>
    /\ regexc = ""
    /\ _PROTOCOLS = EmptyMap
    /\ _DEFAULT_PROTOCOL = 0

\* zero.py imported as well: ZeroSerobjProtocol is registered as serobj@0
InitZero ==
    /\ classes = << [name |-> _DEFAULT_PROTOCOL_NAME, version |-> 0,
                     abstract |-> TRUE],
                    [name |-> _DEFAULT_PROTOCOL_NAME, version |-> 0,
                     abstract |-> FALSE] >>
    /\ regexc = ""
    /\ _PROTOCOLS = MapSet(EmptyMap, _DEFAULT_PROTOCOL_NAME,
                           MapSet(EmptyMap, 0, 2))
    /\ _DEFAULT_PROTOCOL = 2

InitEngine ==
    /\ heap = <<>>
    /\ phase = "build"
    /\ call = [obj |-> PyNone, protocol |-> ProtocolNone, heap |-> <<>>]
    /\ env = NoOutcome
    /\ pass = PassState(<<>>, NewInstance)
    /\ shared = NewInstance
    /\ res = [exc |-> "", val |-> PyNone, by |-> 0, arg |-> PyNone]
    /\ redo = NoOutcome

Init == InitEngine /\ InitZero

Next ==
    \/ \E o \in Templates : NewRoot(o)
    \/ \E a \in Objs, slot \in SlotNames, v \in PrimPool : Put(a, slot, v)
    \/ \E a \in Objs, slot \in SlotNames, b \in Objs : Put(a, slot, Ref(b))
    \/ \E a \in Objs, slot \in SlotNames, o \in Templates : PutNew(a, slot, o)
    \/ \E x \in Roots : Dumps(x, ProtocolNone)
    \/ phase = "dumped" /\ env.exc = "" /\ Loads(env.val)
    \/ Redumps

Spec == Init /\ [][Next]_vars

(***************************************************************************)
(* A program that defines protocol classes, in any order, and then calls   *)
(* dumps with a protocol argument or loads on an envelope it received.     *)
(***************************************************************************)
\* PROTOCOL_NAME of a class body: "" for a class that declares none
DeclNames == {"", "p"}
ProtocolNames == {_DEFAULT_PROTOCOL_NAME, "p"}
Versions == 0 .. MaxVersion

\* the text after "@" in a protocol argument
VersionTokens == {ToString(v) : v \in Versions} \cup {"01", "x"}

\* the classes whose class statement completed and registered them
Concrete ==
    {c \in DOMAIN classes :
        /\ ~classes[c].abstract
        /\ Registered(classes[c].name, classes[c].version)
        /\ _PROTOCOLS[classes[c].name][classes[c].version] = c}

ProtocolArgs ==
    {ProtocolNone}
    \cup {ProtocolStr(<<n>>) : n \in ProtocolNames}
    \cup {ProtocolStr(<<n, t>>) : n \in ProtocolNames, t \in VersionTokens}
    \cup {ProtocolStr(<<"p", "0", "0">>)}
    \cup {ProtocolClass(c) : c \in Concrete}
    \cup {ProtocolInstance(c) : c \in Concrete}

\* envelopes a program receives: with and without meta, naming any pair,
\* with a raw payload, a node and a mapping the node schema rejects
Payloads ==
    { PyInt(1),
      Node(1, PyNone, PyList(<<PyInt(1)>>)),
      PyDict(<< Pair(_PROTOCOL_ID_KEY, PyNone) >>) }

Envelopes ==
    {Envelope(n, v, d) : n \in ProtocolNames, v \in Versions, d \in Payloads}
    \cup {PyDict(<< Pair("payload", PyInt(1)) >>),
          PyDict(<< Pair("meta", PyDict(<< Pair("protocol", PyStr("p")) >>)),
                    Pair("payload", PyInt(1)) >>)}

InitRegistrySpec == InitEngine /\ InitRegistry

NextRegistry ==
    \/ \E n \in DeclNames, v \in Versions, abstract \in BOOLEAN :
          Register(n, v, abstract)
    \/ \E protocol \in ProtocolArgs : Dumps(PyInt(1), protocol)
    \/ \E e \in Envelopes : Loads(e)

SpecRegistry == InitRegistrySpec /\ [][NextRegistry]_vars

(***************************************************************************)
(* A program that defines a class with the overrides SEROBJ__ATTRS and     *)
(* SEROBJ__ATTRS_FILTER, creates an instance of it with some attributes,   *)
(* and calls dumps on the instance.                                        *)
(***************************************************************************)
AttrsFilters ==
    { NoOverride,
      [kind |-> "names", names |-> {}],
      [kind |-> "names", names |-> {"x"}],
      [kind |-> "names", names |-> {"x", "secret"}],
      [kind |-> "mapping", pairs |-> << Pair("x", PyInt(1)) >>],
      [kind |-> "mapping",
       pairs |-> << Pair("x", PyInt(1)), Pair("secret", PyNone) >>],
      [kind |-> "callable", fn |-> "not_secret"],
      [kind |-> "callable", fn |-> "not_none"],
      [kind |-> "other"] }

AttrsKeys ==
    { NoOverride,
      [kind |-> "main"],
      [kind |-> "mapping", pairs |-> << Pair("secret", PyInt(1)) >>],
      [kind |-> "mapping",
       pairs |-> << Pair("x", PyNone), Pair("secret", PyInt(1)) >>],
      [kind |-> "names", list |-> << "secret" >>],
      [kind |-> "names", list |-> << "x", "secret" >>] }

\* the __dict__ of the instance; Ref(2) is another instance of the class
AttrValues == PrimPool \cup {Ref(2)}
AttrDicts ==
    {<<>>}
    \cup {<< Pair(n, v) >> : n \in {"x", "secret"}, v \in AttrValues}
    \cup {<< Pair("x", v), Pair("secret", w) >> : v, w \in AttrValues}
    \cup {<< Pair("secret", v), Pair("x", w) >> : v, w \in AttrValues}

NewFiltered(d, key, f) ==
    /\ phase = "build"
    /\ heap = <<>>
    /\ heap' = << [PlainObj(UserClass, d, NoArgs, NoArgs)
                      EXCEPT !.attrs_key = key, !.attrs_filter = f],
                  PlainObj(UserClass, <<>>, NoArgs, NoArgs) >>
    /\ UNCHANGED <<phase, call, env, pass, shared, res, redo,
                   classes, regexc, _PROTOCOLS, _DEFAULT_PROTOCOL>>

NextAttrs ==
    \/ \E d \in AttrDicts, key \in AttrsKeys, f \in AttrsFilters :
          NewFiltered(d, key, f)
    \/ \E x \in Roots : Dumps(x, ProtocolNone)

SpecAttrs == Init /\ [][NextAttrs]_vars

(***************************************************************************)
(* A program that builds an object graph and calls dumps twice with the    *)
(* same protocol argument: one call after the other, or, on one protocol   *)
(* instance shared by two threads, the second call while the first is      *)
(* inside _deconstruct.  After the second call phase is "second", call and *)
(* pass describe the second call, env holds the outcome of the first call  *)
(* and redo the outcome of the second.                                     *)
(***************************************************************************)
\* the protocol argument: the default, a name, the class, an instance the
\* program keeps
SharedProtocols ==
    { ProtocolNone, ProtocolStr(<<_DEFAULT_PROTOCOL_NAME>>),
      ProtocolClass(2), ProtocolInstance(2) }

\* the program has called dumps(obj, protocol) a second time, r the outcome
DumpsAgainCalled(obj, r) ==
    /\ redo' = [exc |-> r.exc, val |-> r.val, by |-> r.by]
    /\ pass' = r.st
    /\ heap' = r.st.heap
    /\ shared' = IF call.protocol.kind = "instance" /\ r.by # 0
                 THEN InstanceOf(r.st) ELSE shared
    /\ call' = [obj |-> obj, protocol |-> call.protocol, heap |-> heap]
    /\ phase' = "second"
    /\ UNCHANGED <<env, res, classes, regexc, _PROTOCOLS, _DEFAULT_PROTOCOL>>

DumpsAgain(obj) ==
    /\ phase = "dumped"
    /\ DumpsAgainCalled(obj, dumps(obj, call.protocol))

\* thread A has called dumps(x, z) on the shared instance z and has run
\* _deconstruct(x) up to line 378: the counter is incremented and x is in
\* _recursion_map
Entered(x) ==
    Enter(x, [PassState(heap, shared) EXCEPT !.counter = @ + 1, !.depth = 1])

\* thread B then runs dumps(y, z) from call to return
InterleavedCall(x, y) ==
    DumpsReturn(2, serialize(2, InstanceOf(Entered(x)), y))

\* thread A resumes at line 380 on the instance and the heap as B left
\* them, rb the outcome of B
Resumed(x, rb) ==
    DumpsReturn(2, SerializeEnvelope(2,
        DeconstructReturn(DeconstructLeave(x,
            DeconstructBody(x, TypeOf(heap, x),
                            [Entered(x) EXCEPT !.counter = rb.st.counter,
                                               !.rmap = rb.st.rmap,
                                               !.heap = rb.st.heap])))))

DumpsInterleavedCalled(y, rb, ra) ==
    /\ env' = [exc |-> ra.exc, val |-> ra.val, by |-> ra.by]
    /\ redo' = [exc |-> rb.exc, val |-> rb.val, by |-> rb.by]
    /\ pass' = rb.st
    /\ heap' = ra.st.heap
    /\ shared' = InstanceOf(ra.st)
    /\ call' = [obj |-> y, protocol |-> ProtocolInstance(2), heap |-> heap]
    /\ phase' = "second"
    /\ UNCHANGED <<res, classes, regexc, _PROTOCOLS, _DEFAULT_PROTOCOL>>

\* x is an object _deconstruct enters (lines 361-378)
DumpsInterleaved(x, y) ==
    /\ phase = "build"
    /\ ~_check_unsupported_types(heap, x)
    /\ ~_is_proto_object(heap, x)
    /\ DumpsInterleavedCalled(y, InterleavedCall(x, y),
                              Resumed(x, InterleavedCall(x, y)))

NextShared ==
    \/ \E o \in Templates : NewRoot(o)
    \/ \E a \in Objs, slot \in SlotNames, v \in PrimPool :
          Slots(heap) < MaxSlots - 1 /\ Put(a, slot, v)
    \/ \E a \in Objs, slot \in SlotNames, b \in Objs :
          Slots(heap) < MaxSlots - 1 /\ Put(a, slot, Ref(b))
    \/ \E a \in Objs, slot \in SlotNames, o \in Templates :
          /\ Slots(heap) < MaxSlots - 1
          /\ Len(heap) < MaxObjs - 1
          /\ PutNew(a, slot, o)
    \/ \E a \in DOMAIN heap, protocol \in SharedProtocols :
          Dumps(Ref(a), protocol)
    \/ \E a \in DOMAIN heap : DumpsAgain(Ref(a))
    \/ \E a \in DOMAIN heap, b \in DOMAIN heap :
          DumpsInterleaved(Ref(a), Ref(b))

SpecShared == Init /\ [][NextShared]_vars

(***************************************************************************)
(* A program that receives a document, a typed node of the user's class,   *)
(* of set or of range in an envelope of the default protocol, and calls    *)
(* loads on it.  The received document is kept in env.                     *)
(***************************************************************************)
ArgValues == {PyInt(1), PyInt(2), PyList(<<PyInt(0), PyInt(2)>>)}

ArgLists ==
    {<<>>}
    \cup {<<ArgDict(n, v)>> : n \in {"", "k"}, v \in ArgValues}
    \cup {<<ArgDict("", PyInt(1)), ArgDict(n, PyInt(2))>> : n \in {"", "k"}}
    \cup {<<ArgDict("k", PyInt(2)), ArgDict("", PyInt(1))>>,
          <<ArgDict("", PyInt(2)), ArgDict("", PyInt(1))>>}

\* new_args: absent or a list
NewArgsOf == {PyNone} \cup {PyList(l) : l \in ArgLists}
\* init_args: absent, the marker or a list
InitArgsOf == {PyNone, _INIT_LIKE_NEW_KEY} \cup {PyList(l) : l \in ArgLists}
AttrsOf == {<<>>, <<Pair("x", PyInt(1))>>}
SourcesOf == {<<UserModule, UserClass>>, <<"builtins", "set">>,
              <<"builtins", "range">>}

DocSource(module, name) ==
    PyDict(<< Pair("name", PyStr(name)),
              Pair("module", PyStr(module)),
              Pair("path", PyStr(name)),
              Pair("full_path", PyStr(module \o ":" \o name)) >>)

DocRepresentation(attrs, new_args, init_args) ==
    PyDict(<<Pair("attrs", PyDict(attrs))>>
           \o (IF new_args = PyNone THEN <<>>
               ELSE <<Pair("new_args", new_args)>>)
           \o (IF init_args = PyNone THEN <<>>
               ELSE <<Pair("init_args", init_args)>>))

Receive(proto_obj) ==
    /\ phase = "build"
    /\ env' = [exc |-> "", val |-> proto_obj, by |-> 0]
    /\ phase' = "dumped"
    /\ UNCHANGED <<heap, call, pass, shared, res, redo,
                   classes, regexc, _PROTOCOLS, _DEFAULT_PROTOCOL>>

NextConstruct ==
    \/ \E src \in SourcesOf, attrs \in AttrsOf,
          new_args \in NewArgsOf, init_args \in InitArgsOf :
          Receive(Envelope(_DEFAULT_PROTOCOL_NAME, 0,
                           Node(1, DocSource(src[1], src[2]),
                                DocRepresentation(attrs, new_args,
                                                  init_args))))
    \/ phase = "dumped" /\ Loads(env.val)

SpecConstruct == Init /\ [][NextConstruct]_vars

(***************************************************************************)
(* Properties.                                                             *)
(***************************************************************************)
\* dumps was called and returned an envelope
Dumped == phase # "build" /\ env.exc = ""
Payload == DictGet(env.val.pairs, "payload")

\* the object graph handed to dumps has a reference cycle: some object is
\* reached from itself
RECURSIVE Reach(_, _, _, _)
Reach(h, a, target, n) ==
    \E i \in DOMAIN Children(h[a]) :
       LET v == Children(h[a])[i]
       IN  /\ v.k = "ref"
           /\ \/ v.a = target
              \/ n > 0 /\ Reach(h, v.a, target, n - 1)
Cyclic(h) == \E a \in DOMAIN h : Reach(h, a, a, Len(h))
\* object a directly holds itself
HoldsItself(h, a) ==
    \E i \in DOMAIN Children(h[a]) : Children(h[a])[i] = Ref(a)

\* C2: within one serialize call the ids of the emitted nodes strictly
\* increase in traversal order (the order in which _deconstruct reaches the
\* objects), hence the ids of one document are pairwise distinct, also
\* between a container node and the nodes nested inside it.
C2_MonotonicIds ==
    Dumped =>
       \A i, j \in DOMAIN pass.nodes :
          /\ pass.nodes[i].entry < pass.nodes[j].entry
                => pass.nodes[i].id < pass.nodes[j].id
          /\ i # j => pass.nodes[i].id # pass.nodes[j].id

\* C3: serialize terminates on every finite object graph, cyclic or not: the
\* call stack never reaches the recursion limit, no object is entered while
\* it is in progress, and an object met while in progress yields a cycle
\* reference.
C3_CycleSafety ==
    phase # "build" =>
       /\ pass.exc # "RecursionError"
       /\ ~pass.reentered
       /\ pass.depth = 0
       /\ pass.stack = <<>>
       /\ (Dumped /\ Cyclic(heap)) => pass.refs # <<>>

\* a cyclic graph, through an attribute or an argument of an object, has
\* been serialized
C3_Witness ==
    /\ Dumped
    /\ Cyclic(heap)
    /\ \E a \in DOMAIN heap : heap[a].t = "obj" /\ Reach(heap, a, a, Len(heap))
    /\ Len(heap) = MaxObjs
    /\ pass.refs # <<>>

\* C4: the value of every cycle reference of a document is the id of the
\* node emitted for the referenced object in the same document; a container
\* that directly holds itself yields exactly one cycle reference.
C4_CycleReferenceTarget ==
    Dumped =>
       /\ \A i \in DOMAIN pass.refs :
             \E j \in DOMAIN pass.nodes :
                /\ pass.nodes[j].a = pass.refs[i].a
                /\ pass.nodes[j].id = pass.refs[i].val
       /\ (Len(heap) = 1 /\ Len(Children(heap[1])) = 1 /\ HoldsItself(heap, 1))
             => Len(pass.refs) = 1

\* a value built from primitives, lists, string-keyed mappings, tuples and
\* sets, nested at most n deep (so without a reference cycle)
RECURSIVE Raw(_, _, _)
Raw(h, v, n) ==
    LET t == TypeOf(h, v)
    IN  IF t = "prim" THEN TRUE
        ELSE IF n = 0 THEN FALSE
        ELSE IF t \in {"list", "tuple", "set"}
        THEN \A i \in DOMAIN Items(h, v) : Raw(h, Items(h, v)[i], n - 1)
        ELSE IF t = "dict"
        THEN \A i \in DOMAIN Pairs(h, v) : Raw(h, Pairs(h, v)[i].val, n - 1)
        ELSE FALSE

\* such a value holds, at any depth, a mapping the node schema accepts
RECURSIVE HoldsNode(_, _, _)
HoldsNode(h, v, n) ==
    LET t == TypeOf(h, v)
    IN  IF t = "prim" \/ n = 0 THEN FALSE
        ELSE IF t \in {"list", "tuple", "set"}
        THEN \E i \in DOMAIN Items(h, v) : HoldsNode(h, Items(h, v)[i], n - 1)
        ELSE IF t = "dict"
        THEN \/ _SCHEMA_VALIDATOR(h, Pairs(h, v))
             \/ \E i \in DOMAIN Pairs(h, v) :
                   HoldsNode(h, Pairs(h, v)[i].val, n - 1)
        ELSE FALSE

\* nesting deeper than any acyclic value of the model
Deep == MaxObjs + 2

\* loads was called on the envelope dumps returned
RoundTrip == phase = "loaded" /\ res.arg = env.val

\* deserialize(serialize(x)) returned a value equal to x
RoundTripEqual ==
    /\ res.exc = ""
    /\ Abs(heap, res.val, Deep) = Abs(heap, call.obj, Deep)

\* C1 as stated: for every value x built from primitives, lists,
\* string-keyed mappings, tuples and sets, serialize(x) succeeds and
\* deserialize(serialize(x)) equals x under value equality; serialize(None)
\* has the literal null as payload.
C1_RoundTripAll ==
    /\ (phase # "build" /\ Raw(heap, call.obj, Deep)) => env.exc = ""
    /\ (Dumped /\ call.obj = PyNone) => Payload = PyNone
    /\ (RoundTrip /\ Raw(heap, call.obj, Deep)) => RoundTripEqual

\* C1, amended: the same for every such value that holds, at no depth, a
\* mapping the node schema accepts (a mapping with an integer or string
\* "__id__", a "source" that is None or a dict with a string "name", and a
\* "representation").
C1_RoundTrip ==
    /\ (phase # "build" /\ Raw(heap, call.obj, Deep)) => env.exc = ""
    /\ (Dumped /\ call.obj = PyNone) => Payload = PyNone
    /\ (RoundTrip /\ Raw(heap, call.obj, Deep)
                  /\ ~HoldsNode(heap, call.obj, Deep)) => RoundTripEqual

\* a list, a tuple and a set, nested, came back equal
C1_Witness ==
    /\ RoundTrip
    /\ Raw(heap, call.obj, Deep)
    /\ ~HoldsNode(heap, call.obj, Deep)
    /\ Len(heap) = MaxObjs
    /\ \E a \in DOMAIN heap : heap[a].t = "tuple" /\ heap[a].items # <<>>
    /\ \E a \in DOMAIN heap : heap[a].t = "set" /\ heap[a].items # <<>>
    /\ RoundTripEqual

\* C5: deserializing a document that serialize produced from a structure
\* with a reference cycle raises the unsupported-recursion error and returns
\* no value, wherever the cycle reference sits.
C5_CyclesRejected ==
    (RoundTrip /\ pass.refs # <<>>) =>
       /\ res.exc = "ValueError: recursion is not supported yet"
       /\ res.val = PyNone

\* the cycle reference sits as the value of a construction argument
C5_Witness ==
    /\ RoundTrip
    /\ pass.refs # <<>>
    /\ \E a \in DOMAIN heap :
          /\ heap[a].t = "obj"
          /\ \E i \in DOMAIN heap[a].new_args.args :
                /\ heap[a].new_args.args[i].value.k = "dict"
                /\ DictHas(heap[a].new_args.args[i].value.pairs,
                           _RECURSION_KEY)
    /\ res.exc = "ValueError: recursion is not supported yet"

\* a mapping of the graph that is a well-formed node
IsNode(a) == heap[a].t = "dict" /\ _SCHEMA_VALIDATOR(heap, heap[a].pairs)

\* C6: a value that is already a well-formed node is returned as it is, at
\* top level or embedded, gets no id and is not descended into; hence
\* serializing the payload of serialize(x) yields that payload again.
C6_Idempotent ==
    /\ (Dumped /\ call.obj.k = "ref" /\ IsNode(call.obj.a)) =>
          /\ Payload = call.obj
          /\ pass.counter = 0
    /\ Dumped =>
          \A a \in DOMAIN heap :
             IsNode(a) => /\ \A j \in DOMAIN pass.nodes : pass.nodes[j].a # a
                          /\ \A j \in DOMAIN pass.refs : pass.refs[j].a # a
    /\ phase = "redumped" => redo.exc = "" /\ redo.val = env.val

\* the class registered as (name, version)
Implementation(name, version) == _PROTOCOLS[name][version]
Meta == DictGet(env.val.pairs, "meta").pairs

\* C7: serialize(x, "p") runs the implementation of the highest version
\* registered under p, serialize(x, "p@v") the implementation registered as
\* (p, v), whatever the order of the registrations; meta.protocol and
\* meta.version of the envelope are the name and the version of the
\* implementation that ran.
C7_ProtocolSelection ==
    phase = "dumped" =>
       /\ \A n \in ProtocolNames :
             (call.protocol = ProtocolStr(<<n>>) /\ n \in DOMAIN _PROTOCOLS)
                => /\ env.exc = ""
                   /\ \A v \in DOMAIN _PROTOCOLS[n] :
                         v <= classes[env.by].version
                   /\ env.by = Implementation(n, classes[env.by].version)
       /\ \A n \in ProtocolNames, v \in Versions :
             (call.protocol = ProtocolStr(<<n, ToString(v)>>)
                 /\ Registered(n, v))
                => /\ env.exc = ""
                   /\ env.by = Implementation(n, v)
       /\ env.exc = "" =>
             /\ DictGet(Meta, "protocol") = PyStr(classes[env.by].name)
             /\ DictGet(Meta, "version") = PyInt(classes[env.by].version)

\* two versions of p were registered, the higher one first, and
\* serialize(x, "p") ran the higher one
C7_Witness ==
    /\ phase = "dumped"
    /\ call.protocol = ProtocolStr(<<"p">>)
    /\ Registered("p", 0) /\ Registered("p", MaxVersion)
    /\ Implementation("p", MaxVersion) < Implementation("p", 0)
    /\ env.exc = ""
    /\ env.by = Implementation("p", MaxVersion)

\* meta of the envelope handed to loads names a pair (a string and an
\* integer) that is registered
NamesRegistered(e) ==
    /\ DictHas(e.pairs, "meta")
    /\ DictHas(DictGet(e.pairs, "meta").pairs, "protocol")
    /\ DictHas(DictGet(e.pairs, "meta").pairs, "version")
    /\ Registered(DictGet(DictGet(e.pairs, "meta").pairs, "protocol").s,
                  DictGet(DictGet(e.pairs, "meta").pairs, "version").i)

ProtocolNotFound ==
    {"ValueError: proto_obj protocol not found",
     "ValueError: proto_obj has not protocol and/or version information"}

\* C8: deserialize reconstructs an envelope only with the implementation
\* registered under exactly (meta.protocol, meta.version); with no such pair
\* registered, or no meta, it fails with the protocol-not-found error before
\* the payload is validated or reconstructed, and falls back to no other
\* implementation.
C8_ProtocolLookup ==
    phase = "loaded" =>
       IF NamesRegistered(res.arg)
       THEN /\ res.by = Implementation(
                    DictGet(DictGet(res.arg.pairs, "meta").pairs,
                            "protocol").s,
                    DictGet(DictGet(res.arg.pairs, "meta").pairs,
                            "version").i)
            /\ res.exc \notin ProtocolNotFound
       ELSE /\ res.exc \in ProtocolNotFound
            /\ res.by = 0
            /\ res.val = PyNone

\* the envelope names version MaxVersion of p, only version 0 of p and a
\* default protocol are registered, and the payload is one the node schema
\* rejects
C8_Witness ==
    /\ phase = "loaded"
    /\ res.arg = Envelope("p", MaxVersion,
                          PyDict(<< Pair(_PROTOCOL_ID_KEY, PyNone) >>))
    /\ Registered("p", 0)
    /\ ~Registered("p", MaxVersion)
    /\ _DEFAULT_PROTOCOL # 0
    /\ res.exc = "ValueError: proto_obj protocol not found"

\* the class statement just executed, and whether it defines a concrete
\* protocol whose (name, version) was registered before it
Last(cs) == cs[Len(cs)]
Duplicate ==
    /\ classes' # classes
    /\ ~Last(classes').abstract
    /\ Registered(Last(classes').name, Last(classes').version)

\* C9: registering a concrete protocol whose (name, version) is already
\* registered fails at once with a configuration error and leaves the
\* registry and the default protocol as they were; no registered entry is
\* ever removed or replaced.
C9_AppendOnly ==
    [][ /\ Duplicate => /\ regexc' = "RuntimeError: already registered"
                        /\ UNCHANGED <<_PROTOCOLS, _DEFAULT_PROTOCOL>>
        /\ \A n \in DOMAIN _PROTOCOLS :
              \A v \in DOMAIN _PROTOCOLS[n] :
                 /\ n \in DOMAIN _PROTOCOLS'
                 /\ v \in DOMAIN _PROTOCOLS'[n]
                 /\ _PROTOCOLS'[n][v] = _PROTOCOLS[n][v] ]_vars

\* a duplicate of a registered protocol was rejected
C9_Witness ==
    /\ regexc = "RuntimeError: already registered"
    /\ Registered(Last(classes).name, Last(classes).version)
    /\ Implementation(Last(classes).name, Last(classes).version)
          < Len(classes)

\* C10: the default protocol is the highest version registered under
\* "serobj" whenever one is registered under that name, and otherwise the
\* first protocol that was registered; serialize without a protocol
\* argument uses it.
C10_DefaultDesignation ==
    /\ _DEFAULT_PROTOCOL_NAME \in DOMAIN _PROTOCOLS =>
          /\ _DEFAULT_PROTOCOL # 0
          /\ classes[_DEFAULT_PROTOCOL].name = _DEFAULT_PROTOCOL_NAME
          /\ \A v \in DOMAIN _PROTOCOLS[_DEFAULT_PROTOCOL_NAME] :
                v <= classes[_DEFAULT_PROTOCOL].version
    /\ (Concrete # {} /\ _DEFAULT_PROTOCOL_NAME \notin DOMAIN _PROTOCOLS) =>
          /\ _DEFAULT_PROTOCOL \in Concrete
          /\ \A c \in Concrete : _DEFAULT_PROTOCOL <= c
    /\ (phase = "dumped" /\ call.protocol = ProtocolNone /\ Concrete # {}) =>
          env.by = _DEFAULT_PROTOCOL

\* the object handed to dumps, as it was when dumps was called, and the
\* representation of the node dumps returned for it
Root == call.heap[call.obj.a]
RootIs(t) == phase # "build" /\ call.obj.k = "ref" /\ Root.t = t
PayloadRepresentation == DictGet(Payload.pairs, "representation").pairs

\* a value the engine does not serialize: a live module, or an instance it
\* reports as unserializable (its class name starts with "_")
Unserializable(h, v) == TypeOf(h, v) \in {"module", "private", "sentinel"}
PrimAttr(p) == IsPrim(p.val)

\* C11: an attribute of a plain object whose value cannot be serialized is
\* left out of the emitted attrs, the other attributes are emitted, and
\* serialize succeeds: no error caused by an attribute value reaches the
\* caller.  Stated for an object without argument lists whose attribute
\* values are primitives or unserializable values.
C11_AttributesBestEffort ==
    (/\ RootIs("obj")
     /\ ~Root.new_args.has
     /\ ~Root.init_args.has
     /\ \A i \in DOMAIN Root.attrs :
           \/ IsPrim(Root.attrs[i].val)
           \/ Unserializable(call.heap, Root.attrs[i].val))
    => /\ env.exc = ""
       /\ DictGet(PayloadRepresentation, "attrs")
             = PyDict(SelectSeq(Root.attrs, PrimAttr))

\* value v is, or holds inside lists, tuples, sets and mappings nested at
\* most n deep, a value that cannot be serialized
RECURSIVE HoldsUnserializable(_, _, _)
HoldsUnserializable(h, v, n) ==
    LET t == TypeOf(h, v)
    IN  IF Unserializable(h, v) THEN TRUE
        ELSE IF n = 0 THEN FALSE
        ELSE IF t \in {"list", "tuple", "set"}
        THEN \E i \in DOMAIN Items(h, v) :
                HoldsUnserializable(h, Items(h, v)[i], n - 1)
        ELSE IF t = "dict" /\ ~_SCHEMA_VALIDATOR(h, Pairs(h, v))
        THEN \E i \in DOMAIN Pairs(h, v) :
                HoldsUnserializable(h, Pairs(h, v)[i].val, n - 1)
        ELSE FALSE

\* some object of the graph has a construction argument that is or holds an
\* unserializable value
ArgumentUnserializable(h) ==
    \E a \in DOMAIN h :
       /\ h[a].t = "obj"
       /\ \/ \E i \in DOMAIN h[a].new_args.args :
                HoldsUnserializable(h, h[a].new_args.args[i].value, Deep)
          \/ \E i \in DOMAIN h[a].init_args.args :
                HoldsUnserializable(h, h[a].init_args.args[i].value, Deep)

\* C12: if a value in an object's new_args or init_args cannot be
\* serialized, be it the argument value itself or a value nested inside a
\* container argument, serialize fails with an error and returns no
\* document.  Stated for graphs without a reference cycle, where every
\* object of the graph is visited.
C12_ArgumentsLoadBearing ==
    (phase # "build" /\ ~Cyclic(call.heap) /\ ArgumentUnserializable(call.heap))
    => /\ env.exc # ""
       /\ env.val = PyNone

\* C14: when a top-level serialize call has returned or raised, the
\* in-progress map of the protocol instance that ran it is empty: every
\* object's marker was cleared when its deconstruction finished, by
\* returning a node, by raising or by being reported as unserializable.
C14_MarkersCleared ==
    phase # "build" => DOMAIN pass.rmap = {}

\* C15: a cycle reference is emitted for an object only while that object is
\* an ancestor of the current position (its _deconstruct call is on the call
\* stack); a graph without a reference cycle yields no cycle reference,
\* however often an object occurs in it.
C15_AncestorsOnly ==
    Dumped =>
       /\ \A i \in DOMAIN pass.refs : pass.refs[i].anc
       /\ ~Cyclic(call.heap) => pass.refs = <<>>

\* C17: when new_args and init_args of an object are the same argument list
\* (same names, same values, same order), init_args of the emitted
\* representation is the INIT_LIKE_NEW marker and new_args is present; the
\* marker is never emitted without new_args.
C17_InitLikeNew ==
    (Dumped /\ RootIs("obj")) =>
       /\ (/\ Root.new_args.has
           /\ Root.init_args.has
           /\ Root.new_args.args = Root.init_args.args)
          => /\ DictHas(PayloadRepresentation, "new_args")
             /\ DictHas(PayloadRepresentation, "init_args")
             /\ DictGet(PayloadRepresentation, "init_args")
                   = _INIT_LIKE_NEW_KEY
       /\ (/\ DictHas(PayloadRepresentation, "init_args")
           /\ DictGet(PayloadRepresentation, "init_args") = _INIT_LIKE_NEW_KEY)
          => DictHas(PayloadRepresentation, "new_args")

\* every position of document v is a primitive, a list or a mapping
RECURSIVE Pure(_, _, _)
Pure(h, v, n) ==
    LET t == TypeOf(h, v)
    IN  IF t = "prim" THEN TRUE
        ELSE IF t \notin {"list", "dict"} THEN FALSE
        ELSE IF n = 0 THEN TRUE
        ELSE IF t = "list"
        THEN \A i \in DOMAIN Items(h, v) : Pure(h, Items(h, v)[i], n - 1)
        ELSE \A i \in DOMAIN Pairs(h, v) : Pure(h, Pairs(h, v)[i].val, n - 1)

\* nesting deeper than any document of the model
DocDepth == 8 * (MaxObjs + 1)

\* C19: every document serialize returns is a tree of maps, sequences and
\* primitives; the not-serializable sentinel appears at no position of it.
C19_PureTree ==
    Dumped => Pure(heap, Payload, DocDepth)

\* the attrs dumps emitted for the object handed to it, and the attribute
\* set its strategy (SEROBJ__ATTRS) resolved
EmittedAttrs == DictGet(PayloadRepresentation, "attrs").pairs
Captured == AttrsByKey(call.heap, Root).out
Keys(pairs) == [i \in DOMAIN pairs |-> pairs[i].key]

\* the attribute (name, value) satisfies the filter f: f is a callable that
\* returns true for it, or an iterable (a mapping is one) that contains name
Satisfies(f, name, value) ==
    \/ f.kind = "names" /\ name \in f.names
    \/ f.kind = "mapping" /\ DictHas(f.pairs, name)
    \/ f.kind = "callable" /\ CallFilter(f.fn, name, value)

\* C13: every attribute name emitted for an object that defines attrs_filter
\* satisfies the filter, whichever strategy produced the attribute set, so
\* an attribute the filter excludes ("secret") is in no document; without
\* the override every captured attribute is kept.
C13_FilterHonoured ==
    (Dumped /\ RootIs("obj")) =>
       /\ \A i \in DOMAIN EmittedAttrs :
             /\ DictHas(Captured, EmittedAttrs[i].key)
             /\ Root.attrs_filter # NoOverride =>
                   Satisfies(Root.attrs_filter, EmittedAttrs[i].key,
                             DictGet(Captured, EmittedAttrs[i].key))
       /\ (/\ Root.attrs_filter.kind = "callable"
           /\ Root.attrs_filter.fn = "not_secret")
          => ~DictHas(EmittedAttrs, "secret")
       /\ Root.attrs_filter = NoOverride => Keys(EmittedAttrs) = Keys(Captured)

\* the attribute set came from a SEROBJ__ATTRS mapping that holds "secret",
\* the filter is a callable that excludes it, and the other attribute was
\* emitted
C13_Witness ==
    /\ Dumped
    /\ RootIs("obj")
    /\ Root.attrs_key.kind = "mapping"
    /\ Root.attrs_filter = [kind |-> "callable", fn |-> "not_secret"]
    /\ DictHas(Captured, "secret")
    /\ Keys(EmittedAttrs) = << "x" >>

\* document v with every id and every cycle reference value set to 0
RECURSIVE Shape(_, _)
Shape(v, n) ==
    IF n = 0 \/ v.k \notin {"list", "dict"} THEN v
    ELSE IF v.k = "list"
    THEN PyList([i \in DOMAIN v.items |-> Shape(v.items[i], n - 1)])
    ELSE PyDict([i \in DOMAIN v.pairs |->
                   IF v.pairs[i].key \in {_PROTOCOL_ID_KEY, _RECURSION_KEY}
                   THEN Pair(v.pairs[i].key, PyInt(0))
                   ELSE Pair(v.pairs[i].key, Shape(v.pairs[i].val, n - 1))])

\* what the second call produces when it runs alone, on a protocol instance
\* of its own
Alone == _deconstruct(call.obj, PassState(call.heap, NewInstance))

\* C16: of two serialize calls, one after the other or interleaved, with
\* the protocol given by default, by name, by class or as one shared
\* instance, the second starts with no in-progress entry of the first, so
\* it emits no cycle reference for an object in progress only in the other
\* call, and it fails or returns as it does when run alone, with the same
\* document up to the numbering of ids.
C16_CallScoped ==
    phase = "second" =>
       /\ DOMAIN pass.rmap0 = {}
       /\ \A i \in DOMAIN pass.refs : pass.refs[i].a \notin DOMAIN pass.rmap0
       /\ redo.exc = Alone.st.exc
       /\ redo.exc = "" =>
             Shape(DictGet(redo.val.pairs, "payload"), DocDepth)
                = Shape(Alone.val, DocDepth)

\* the typed node loads was called on, its source path and the fields of
\* its representation
Document == DictGet(res.arg.pairs, "payload").pairs
DocPath == DictGet(DictGet(Document, "source").pairs, "full_path").s
DocFields == DictGet(Document, "representation").pairs
DocAttrs == DictGet(DocFields, "attrs").pairs
DocArgs(key) == IF DictHas(DocFields, key) THEN DictGet(DocFields, key)
                ELSE PyNone

\* the positional argument values of an argument list in document order,
\* and its named argument values by name
Positional(args) ==
    LET pos == SelectSeq(args,
                         LAMBDA a : DictGet(a.pairs, "name") = PyStr(""))
    IN  [j \in DOMAIN pos |-> DictGet(pos[j].pairs, "value")]

RECURSIVE Named(_)
Named(args) ==
    IF args = <<>> THEN <<>>
    ELSE LET a == args[Len(args)].pairs
             rest == Named(SubSeq(args, 1, Len(args) - 1))
         IN  IF DictGet(a, "name") = PyStr("") THEN rest
             ELSE DictSet(rest, DictGet(a, "name").s, DictGet(a, "value"))

CallOf(fn, args) == Call(fn, Positional(args.items), Named(args.items))

\* the document is a node of the user's class / of range
OfUserClass == phase = "loaded" /\ DocPath = UserModule \o ":" \o UserClass
OfRange == phase = "loaded" /\ DocPath = "builtins:range"

\* for a node of the user's class: neither list gives the class itself;
\* only new_args one call of the new hook; both the new hook and then the
\* init hook, with the new_args values again for the marker; the attrs are
\* set on what was constructed
DispatchNew ==
    OfUserClass =>
       /\ res.exc = ""
       /\ DocArgs("new_args") = PyNone /\ DocArgs("init_args") = PyNone
             => res.val = PyClass(DocPath)
       /\ DocArgs("new_args") # PyNone /\ DocArgs("init_args") = PyNone
             => res.val = PyObject(DocPath,
                                   <<CallOf("new", DocArgs("new_args"))>>,
                                   DocAttrs)
       /\ DocArgs("new_args") # PyNone /\ DocArgs("init_args") # PyNone
             => res.val =
                  PyObject(DocPath,
                           << CallOf("new", DocArgs("new_args")),
                              CallOf("init",
                                     IF DocArgs("init_args")
                                           = _INIT_LIKE_NEW_KEY
                                     THEN DocArgs("new_args")
                                     ELSE DocArgs("init_args")) >>,
                           DocAttrs)

\* the result is what one call of the ordinary constructor with the
\* positional and the named values of args gives
ConstructedWith(positional, named) ==
    IF DocPath = "builtins:range"
    THEN [exc |-> res.exc, val |-> res.val]
            = CallType(PyClass(DocPath), positional, named)
    ELSE res.val = PyObject(DocPath, <<Call("call", positional, named)>>,
                            DocAttrs)

\* C18: the construction step of a typed node is fixed by the argument
\* lists present.  Neither: the resolved source value, no call.  Only
\* init_args, a list: one call of the ordinary constructor with the
\* reconstructed arguments, for range with the elements of the first
\* positional argument as its arguments; only init_args, the INIT_LIKE_NEW
\* marker: the resolved source value, no call.  Only new_args: one call of
\* the new hook, no init call.  Both: the new hook, then the init hook with
\* init_args, or with the new_args values for the marker.  Positional
\* arguments keep document order, named ones go by name, attrs are applied
\* after construction.
C18_Dispatch ==
    /\ DispatchNew
    /\ (OfUserClass \/ OfRange) /\ DocArgs("new_args") = PyNone
          => IF DocArgs("init_args") = PyNone THEN TRUE
             ELSE IF DocArgs("init_args") = _INIT_LIKE_NEW_KEY
             THEN res.exc = "" /\ res.val = PyClass(DocPath)
             ELSE IF DocPath # "builtins:range"
             THEN ConstructedWith(Positional(DocArgs("init_args").items),
                                  Named(DocArgs("init_args").items))
             ELSE \/ DocAttrs # <<>>
                  \/ Positional(DocArgs("init_args").items) = <<>>
                  \/ Positional(DocArgs("init_args").items)[1].k # "list"
                  \/ ConstructedWith(
                        Positional(DocArgs("init_args").items)[1].items,
                        Named(DocArgs("init_args").items))

\* C18 as stated: whenever only init_args is present, the marker included
\* and whatever the source, the result is that of exactly one call of the
\* ordinary constructor with the reconstructed arguments
C18_DispatchAsStated ==
    /\ DispatchNew
    /\ (OfUserClass \/ OfRange)
          /\ DocArgs("new_args") = PyNone
          /\ DocArgs("init_args") # PyNone
          /\ DocAttrs = <<>>
          => IF DocArgs("init_args") = _INIT_LIKE_NEW_KEY
             THEN res.val.k \in {"object", "range"}
             ELSE ConstructedWith(Positional(DocArgs("init_args").items),
                                  Named(DocArgs("init_args").items))

\* a node of the user's class with both lists, init_args the marker, a
\* positional and a named argument and an attribute has been reconstructed
C18_Witness ==
    /\ OfUserClass
    /\ DocArgs("init_args") = _INIT_LIKE_NEW_KEY
    /\ DocArgs("new_args") = PyList(<<ArgDict("", PyInt(1)),
                                     ArgDict("k", PyInt(2))>>)
    /\ DocAttrs # <<>>
    /\ res.exc = ""
    /\ Len(res.val.calls) = 2

====
